---- MODULE Spec2Model ----
(***************************************************************************)
(* MMROFS: transactional flat file store on SPI NOR flash.                 *)
(*                                                                         *)
(* The model follows src/unnamed/part_001 (the MMROFS implementation).     *)
(* Scaling: the erase block is 2^BlockShift bytes instead of 4096 (the     *)
(* capacity mask is the low BlockShift bits instead of the low 12), the    *)
(* 32-bit words of an entry are WordBits wide (all-ones stays the          *)
(* "unset"/"none" sentinel), the entry table has MaxEntries slots and the  *)
(* data region NumDataBlocks blocks.  Every flash program is old AND new   *)
(* (NOR flash clears bits only); an erase sets a block to 0xFF.  A         *)
(* behaviour makes at most MaxCalls calls (MaxCallsShare, MaxCallsRename,  *)
(* MaxCallsFail in the other specifications).                              *)
(***************************************************************************)
EXTENDS Integers, Sequences, FiniteSets, TLC

\* ---------------------------------------------------------------- bounds
BlockShift    == 2
WordBits      == 16
MaxEntries    == 4
NumDataBlocks == 3
MaxFiles      == 2
MaxTime       == 2
MaxFlashOps   == 40
MaxCalls      == 8
MaxCallsShare == 7
MaxCallsRename == 6
MaxCallsFail  == 5
NumTasks      == 2
MaxCallsMutex == 4

\* ------------------------------------------------------------- constants
MMROFS_ERASE_BLOCK_SIZE  == 2 ^ BlockShift
MMROFS_HEADER_PAGES      == 16
MMROFS_HEADER_SIZE       == MMROFS_HEADER_PAGES * MMROFS_ERASE_BLOCK_SIZE
MMROFS_DATA_REGION_START == MMROFS_HEADER_SIZE
MMROFS_MAX_FILENAME_LEN  == 255
MMROFS_MMAP_WINDOW_SIZE  == 2 * MMROFS_ERASE_BLOCK_SIZE
COPY_BUF_SIZE            == 256
SCAN_BUF_SIZE            == 64

STATE_FREE            == 255
STATE_ALLOCATING      == 127
STATE_PENDING_DATA    == 63
STATE_TOMBSTONING_OLD == 31
STATE_ACTIVE          == 15
STATE_VALID           == 7
STATE_TOMBSTONE       == 3
STATE_BADBLOCK        == 1
STATE_ERASED          == 0

WORD_MAX           == 2 ^ WordBits - 1
WORD_MOD           == 2 ^ WordBits
ENTRY_NONE         == WORD_MAX
MTIME_UNSET        == WORD_MAX
\* the first clock value of the year 1990: an earlier host clock is invalid
YEAR_1990          == 1
SIZE_UNKNOWN       == WORD_MAX
CAPACITY_MASK_BITS == MMROFS_ERASE_BLOCK_SIZE - 1
NAME_LEN_MAX       == 2 ^ 16 - 1
FD_NO_ENTRY        == 65535

FD_STATE_UNUSED         == 0
FD_STATE_PENDING_NEW    == 1
FD_STATE_PENDING_UPDATE == 2
FD_STATE_COMMITTED      == 3

max_entries    == MaxEntries
partition_size == MMROFS_DATA_REGION_START + NumDataBlocks * MMROFS_ERASE_BLOCK_SIZE
Slots          == 0 .. (max_entries - 1)
DataAddrs      == MMROFS_DATA_REGION_START .. (partition_size - 1)

\* ------------------------------------------------------------- bit logic
RECURSIVE BitAnd(_, _)
BitAnd(a, b) ==
    IF a = 0 \/ b = 0 THEN 0
    ELSE IF a = b THEN a
    ELSE (a % 2) * (b % 2) + 2 * BitAnd(a \div 2, b \div 2)

RECURSIVE BitXor(_, _)
BitXor(a, b) ==
    IF a = 0 THEN b
    ELSE IF b = 0 THEN a
    ELSE ((a + b) % 2) + 2 * BitXor(a \div 2, b \div 2)

U32(x) == x % WORD_MOD

\* ------------------------------------------------------------------ hash
\* prime 16777619 and offset basis 2166136261 (= 2^31 + 18652613), reduced to
\* the modelled word width: the modelled hash is the low WordBits bits of the
\* 32-bit one.
FNV_PRIME_LOW  == 16777619 % WORD_MOD
FNV_BASIS_LOW  == 18652613 % WORD_MOD

RECURSIVE fnv1a32_from(_, _, _)
fnv1a32_from(hash, name, i) ==
    IF i > Len(name) THEN hash
    ELSE fnv1a32_from(U32(BitXor(hash, name[i]) * FNV_PRIME_LOW), name, i + 1)

fnv1a32(name) == fnv1a32_from(FNV_BASIS_LOW, name, 1)

\* ----------------------------------------------------- on-flash entries
FreeEntry ==
    [state |-> STATE_FREE, reserved_v |-> 255, name_len |-> NAME_LEN_MAX,
     name_hash |-> WORD_MAX, offset |-> WORD_MAX, size |-> WORD_MAX,
     mtime |-> WORD_MAX, ctime |-> WORD_MAX, old_entry |-> WORD_MAX,
     dst_entry |-> WORD_MAX]

AllFF(e) == e = FreeEntry

\* NOR programming of a whole entry image over the stored one.
ProgramEntry(old, new) ==
    [state      |-> BitAnd(old.state, new.state),
     reserved_v |-> BitAnd(old.reserved_v, new.reserved_v),
     name_len   |-> BitAnd(old.name_len, new.name_len),
     name_hash  |-> BitAnd(old.name_hash, new.name_hash),
     offset     |-> BitAnd(old.offset, new.offset),
     size       |-> BitAnd(old.size, new.size),
     mtime      |-> BitAnd(old.mtime, new.mtime),
     ctime      |-> BitAnd(old.ctime, new.ctime),
     old_entry  |-> BitAnd(old.old_entry, new.old_entry),
     dst_entry  |-> BitAnd(old.dst_entry, new.dst_entry)]

align_up_4k(val) ==
    LET s == U32(val + MMROFS_ERASE_BLOCK_SIZE - 1)
    IN  s - (s % MMROFS_ERASE_BLOCK_SIZE)

entry_allocated_bytes(e) == align_up_4k(e.size)

is_capacity_mask(size) == (size % MMROFS_ERASE_BLOCK_SIZE) = CAPACITY_MASK_BITS

entry_is_live(state) == state = STATE_ACTIVE \/ state = STATE_VALID

entry_validate(e) ==
    /\ ~(e.name_len = 0 \/ e.name_len > MMROFS_MAX_FILENAME_LEN)
    /\ ~(e.size < e.name_len)
    /\ ~(e.offset < MMROFS_DATA_REGION_START)
    /\ (e.offset % MMROFS_ERASE_BLOCK_SIZE) = 0
    /\ ~(U32(e.offset + entry_allocated_bytes(e)) > partition_size)
    /\ ~(e.old_entry # ENTRY_NONE /\ e.old_entry >= max_entries)
    /\ ~(e.dst_entry # ENTRY_NONE /\ e.dst_entry >= max_entries)

\* ------------------------------------------------------- flash device
\* A call runs on a machine record: the flash (hdr, data), the RAM hint
\* next_free_entry (nfe), the number n of flash operations issued so far,
\* the operation index `stop` at which power is lost (operations n >= stop
\* never reach the flash), the index `fail` of the program that the device
\* rejects, the result err of the last flash call and the log of the
\* operations that reached the device.
NoStop == MaxFlashOps
NoFail == MaxFlashOps

Machine(hdr, data, nfe, stop, fail) ==
    [hdr |-> hdr, data |-> data, nfe |-> nfe, n |-> 0, stop |-> stop,
     fail |-> fail, err |-> FALSE, log |-> <<>>]

PowerLost(m) == m.n >= m.stop

LogRec(kind, at, val, old, bytes, oldbytes) ==
    [kind |-> kind, at |-> at, val |-> val, old |-> old, bytes |-> bytes,
     oldbytes |-> oldbytes, ok |-> TRUE]

FlashOp(m, hdr2, data2, rec) ==
    IF PowerLost(m) THEN m
    ELSE IF m.n = m.fail
         THEN [m EXCEPT !.n = @ + 1, !.err = TRUE,
                        !.log = Append(@, [rec EXCEPT !.ok = FALSE])]
         ELSE [m EXCEPT !.n = @ + 1, !.err = FALSE, !.hdr = hdr2,
                        !.data = data2, !.log = Append(@, rec)]

ReadBytes(data, offset, len) ==
    [j \in 1 .. len |->
        IF (offset + j - 1) \in DataAddrs THEN data[offset + j - 1] ELSE 255]

InData(offset, len) ==
    offset >= MMROFS_DATA_REGION_START /\ offset + len <= partition_size

\* esp_partition_write to the data region
flash_write(m, offset, bytes) ==
    IF ~InData(offset, Len(bytes))
    THEN IF PowerLost(m) THEN m ELSE [m EXCEPT !.err = TRUE]
    ELSE FlashOp(m, m.hdr,
                 [a \in DataAddrs |->
                    IF a >= offset /\ a < offset + Len(bytes)
                    THEN BitAnd(m.data[a], bytes[a - offset + 1])
                    ELSE m.data[a]],
                 LogRec("data", offset, Len(bytes), 0, bytes,
                        ReadBytes(m.data, offset, Len(bytes))))

\* the value of fail under which the device rejects flash operation j when
\* it is an erase
EraseFailAt(j) == MaxFlashOps + 1 + j

\* esp_partition_erase_range; an erase is rejected only under EraseFailAt,
\* and a rejected erase leaves the range as it was
flash_erase(m, offset, len) ==
    IF ~InData(offset, len) \/ len = 0
    THEN IF PowerLost(m) THEN m ELSE [m EXCEPT !.err = TRUE]
    ELSE IF ~PowerLost(m) /\ m.fail = EraseFailAt(m.n)
    THEN [m EXCEPT !.n = @ + 1, !.err = TRUE,
                   !.log = Append(@, [LogRec("erase", offset, len, 0, <<>>, <<>>)
                                          EXCEPT !.ok = FALSE])]
    ELSE FlashOp([m EXCEPT !.fail = IF m.fail = m.n THEN NoFail ELSE @],
                 m.hdr,
                 [a \in DataAddrs |->
                    IF a >= offset /\ a < offset + len THEN 255 ELSE m.data[a]],
                 LogRec("erase", offset, len, 0, <<>>, <<>>))

entry_read(m, index) == m.hdr[index]

entry_write_state(m, index, state) ==
    FlashOp(m, [m.hdr EXCEPT ![index].state = BitAnd(@, state)], m.data,
            LogRec("state", index, state, m.hdr[index].state, <<>>, <<>>))

\* bytes 1..31 of the entry image, the state byte excluded
entry_write_rest(m, index, e) ==
    FlashOp(m,
            [m.hdr EXCEPT ![index] =
                ProgramEntry(@, [e EXCEPT !.state = STATE_FREE])],
            m.data,
            LogRec("meta", index, e.size, e.mtime, <<>>, <<>>))

entry_write_mtime(m, index, mtime) ==
    FlashOp(m, [m.hdr EXCEPT ![index].mtime = BitAnd(@, mtime)], m.data,
            LogRec("mtime", index, mtime, m.hdr[index].mtime, <<>>, <<>>))

entry_write_size(m, index, size) ==
    FlashOp(m, [m.hdr EXCEPT ![index].size = BitAnd(@, size)], m.data,
            LogRec("size", index, size, m.hdr[index].size, <<>>, <<>>))

mmrofs_data_read(m, offset, len) == ReadBytes(m.data, offset, len)

\* ------------------------------------------------------------- lookup
RECURSIVE lookup_from(_, _, _, _)
lookup_from(m, i, name, hash) ==
    IF i >= max_entries THEN [m |-> m, idx |-> -1]
    ELSE LET e == entry_read(m, i) IN
         IF ~entry_is_live(e.state) \/ e.name_hash # hash \/ e.name_len # Len(name)
         THEN lookup_from(m, i + 1, name, hash)
         ELSE IF ~entry_validate(e)
         THEN lookup_from(entry_write_state(m, i, STATE_TOMBSTONE), i + 1, name, hash)
         ELSE IF mmrofs_data_read(m, e.offset, Len(name)) = name
         THEN [m |-> m, idx |-> i]
         ELSE lookup_from(m, i + 1, name, hash)

mmrofs_lookup(m, name, hash) == lookup_from(m, 0, name, hash)

\* --------------------------------------------------- entry allocation
RECURSIVE alloc_entry_from(_, _)
alloc_entry_from(m, i) ==
    IF i >= max_entries THEN [m |-> m, slot |-> -1]
    ELSE IF m.hdr[i].state # STATE_FREE THEN alloc_entry_from(m, i + 1)
    ELSE IF ~AllFF(m.hdr[i])
    THEN alloc_entry_from(entry_write_state(m, i, STATE_ERASED), i + 1)
    ELSE [m |-> [m EXCEPT !.nfe = i + 1], slot |-> i]

\* the slot scan started at slot 0 instead of the hint
alloc_entry_ignoring_hint(m) == alloc_entry_from(m, 0)

mmrofs_alloc_entry(m) == alloc_entry_from(m, m.nfe)

\* ---------------------------------------------------- data allocation
Occupies(e) ==
    /\ (entry_is_live(e.state) \/ e.state = STATE_TOMBSTONING_OLD)
    /\ ~(e.offset < MMROFS_DATA_REGION_START)

RangeOf(e) == [start |-> e.offset, end |-> U32(e.offset + entry_allocated_bytes(e))]

RECURSIVE data_end_from(_, _, _)
data_end_from(m, i, data_end) ==
    IF i >= max_entries THEN data_end
    ELSE LET e == entry_read(m, i) IN
         IF Occupies(e) /\ RangeOf(e).end > data_end
         THEN data_end_from(m, i + 1, RangeOf(e).end)
         ELSE data_end_from(m, i + 1, data_end)

RECURSIVE collect_ranges(_, _)
collect_ranges(m, i) ==
    IF i >= max_entries THEN <<>>
    ELSE LET e == entry_read(m, i) IN
         IF Occupies(e) THEN <<RangeOf(e)>> \o collect_ranges(m, i + 1)
         ELSE collect_ranges(m, i + 1)

\* the exchange sort of the ranges by start offset
RECURSIVE sort_ranges(_)
sort_ranges(rs) ==
    IF Len(rs) <= 1 THEN rs
    ELSE LET k == CHOOSE k \in 1 .. Len(rs) :
                    /\ \A j \in 1 .. Len(rs) : rs[k].start <= rs[j].start
                    /\ \A j \in 1 .. (k - 1) : rs[j].start # rs[k].start
             rest == [j \in 1 .. (Len(rs) - 1) |-> IF j < k THEN rs[j] ELSE rs[j + 1]]
         IN  <<rs[k]>> \o sort_ranges(rest)

RECURSIVE first_fit(_, _, _, _)
first_fit(ranges, r, candidate, alloc) ==
    IF r > Len(ranges) THEN [found |-> FALSE, candidate |-> candidate]
    ELSE IF U32(candidate + alloc) <= ranges[r].start
    THEN [found |-> TRUE, candidate |-> candidate]
    ELSE first_fit(ranges, r + 1,
                   IF ranges[r].end > candidate THEN ranges[r].end ELSE candidate,
                   alloc)

\* the allocator without the search of the gaps between occupied ranges
find_free_data_no_gaps(m, needed_bytes) ==
    LET data_end  == data_end_from(m, 0, MMROFS_DATA_REGION_START)
        candidate == align_up_4k(data_end)
        alloc     == align_up_4k(needed_bytes)
    IN  IF ~(U32(candidate + alloc) > partition_size)
        THEN [ok |-> TRUE, offset |-> candidate]
        ELSE [ok |-> FALSE, offset |-> 0]

mmrofs_find_free_data(m, needed_bytes) ==
    LET data_end  == data_end_from(m, 0, MMROFS_DATA_REGION_START)
        candidate == align_up_4k(data_end)
        alloc     == align_up_4k(needed_bytes)
    IN  IF ~(U32(candidate + alloc) > partition_size)
        THEN [ok |-> TRUE, offset |-> candidate]
        ELSE LET ff == first_fit(sort_ranges(collect_ranges(m, 0)), 1,
                                 MMROFS_DATA_REGION_START, alloc)
             IN  IF ~ff.found /\ U32(ff.candidate + alloc) > partition_size
                 THEN [ok |-> FALSE, offset |-> 0]
                 ELSE [ok |-> TRUE, offset |-> ff.candidate]

mmrofs_space_after_free(m, offset, current_alloc, needed_total) ==
    LET new_alloc   == align_up_4k(needed_total)
        extra_start == U32(offset + current_alloc)
        extra_end   == U32(offset + new_alloc)
    IN  IF new_alloc <= current_alloc THEN TRUE
        ELSE IF extra_end > partition_size THEN FALSE
        ELSE IF \E i \in Slots :
                    LET e == entry_read(m, i) IN
                    /\ entry_is_live(e.state)
                    /\ ~(e.offset < MMROFS_DATA_REGION_START)
                    /\ e.offset < extra_end
                    /\ RangeOf(e).end > extra_start
        THEN FALSE
        ELSE \A a \in extra_start .. (extra_end - 1) :
                 a \in DataAddrs /\ m.data[a] = 255

\* ------------------------------------- new entry: ALLOCATING .. PENDING_DATA
\* a successor entry built without its predecessor's ctime
NewEntryDropsCtime(name_len, name_hash, offset, size, mtime, ctime, old_entry, dst_entry) ==
    [state |-> STATE_ALLOCATING, reserved_v |-> 0, name_len |-> name_len,
     name_hash |-> name_hash, offset |-> offset, size |-> size,
     mtime |-> mtime, ctime |-> IF old_entry = ENTRY_NONE THEN ctime ELSE 0,
     old_entry |-> old_entry, dst_entry |-> dst_entry]

NewEntry(name_len, name_hash, offset, size, mtime, ctime, old_entry, dst_entry) ==
    [state |-> STATE_ALLOCATING, reserved_v |-> 0, name_len |-> name_len,
     name_hash |-> name_hash, offset |-> offset, size |-> size,
     mtime |-> mtime, ctime |-> ctime, old_entry |-> old_entry,
     dst_entry |-> dst_entry]

mmrofs_create_entry(m, name_len, name_hash, offset, size, ctime, old_entry, dst_entry) ==
    LET Pending(slot, m3) ==
            IF m3.err
            THEN [m |-> entry_write_state(m3, slot, STATE_TOMBSTONE), slot |-> -1]
            ELSE [m |-> m3, slot |-> slot]
        Filled(slot, m2) ==
            IF m2.err
            THEN [m |-> entry_write_state(m2, slot, STATE_TOMBSTONE), slot |-> -1]
            ELSE Pending(slot, entry_write_state(m2, slot, STATE_PENDING_DATA))
        Allocating(slot, m1) ==
            IF m1.err THEN [m |-> m1, slot |-> -1]
            ELSE Filled(slot,
                    entry_write_rest(m1, slot,
                        NewEntry(name_len, name_hash, offset, size, MTIME_UNSET,
                                 ctime, old_entry, dst_entry)))
        Allocated(a) ==
            IF a.slot < 0 THEN [m |-> a.m, slot |-> -1]
            ELSE Allocating(a.slot, entry_write_state(a.m, a.slot, STATE_ALLOCATING))
    IN  Allocated(mmrofs_alloc_entry(m))

\* ------------- PENDING_DATA -> TOMBSTONING_OLD -> tombstone old -> ACTIVE
mmrofs_tombstone_old_flow(m, new_slot, old_slot, dst_slot_val) ==
    LET DstGone(m3) ==
            IF m3.err THEN m3 ELSE entry_write_state(m3, new_slot, STATE_ACTIVE)
        OldGone(m2) ==
            IF m2.err THEN m2
            ELSE DstGone(IF dst_slot_val # ENTRY_NONE /\ dst_slot_val < max_entries
                         THEN entry_write_state(m2, dst_slot_val, STATE_TOMBSTONE)
                         ELSE m2)
        Marked(m1) ==
            IF m1.err THEN m1
            ELSE OldGone(entry_write_state(m1, old_slot, STATE_TOMBSTONE))
    IN  Marked(entry_write_state(m, new_slot, STATE_TOMBSTONING_OLD))

\* ----------------------------------------------------------- recovery
\* backwards scan for the last byte that is not 0xFF, in chunks
RECURSIVE scan_back(_, _, _)
scan_back(m, e, pos) ==
    LET floor       == e.offset + e.name_len
        cs0         == IF pos > SCAN_BUF_SIZE THEN pos - SCAN_BUF_SIZE ELSE e.offset
        chunk_start == IF cs0 < floor THEN floor ELSE cs0
        buf         == mmrofs_data_read(m, chunk_start, pos - chunk_start)
        hits        == {j \in 1 .. Len(buf) : buf[j] # 255}
    IN  IF ~(pos > floor) THEN [found |-> FALSE, last_non_ff |-> floor]
        ELSE IF hits # {}
        THEN [found |-> TRUE,
              last_non_ff |-> chunk_start + (CHOOSE j \in hits : \A k \in hits : k <= j) - 1]
        ELSE scan_back(m, e, chunk_start)

inferred_size_of(m, e) ==
    LET Scanned(sc) ==
            IF sc.found THEN (sc.last_non_ff - e.offset) + 1 ELSE e.name_len
    IN  Scanned(scan_back(m, e, e.offset + entry_allocated_bytes(e)))

\* size recovery of ACTIVE slot i; e is the local copy of the entry
size_recovery(m, i, e) ==
    LET Inferred(inferred_size) ==
            IF is_capacity_mask(e.size)
            THEN IF inferred_size # e.size
                 THEN [m |-> entry_write_size(m, i, inferred_size),
                       e |-> [e EXCEPT !.size = inferred_size]]
                 ELSE [m |-> m, e |-> e]
            ELSE IF inferred_size < e.size /\ e.size - inferred_size > 2
            THEN [m |-> entry_write_size(m, i, inferred_size),
                  e |-> [e EXCEPT !.size = inferred_size]]
            ELSE [m |-> m, e |-> e]
    IN  Inferred(inferred_size_of(m, e))

\* mutant of mtime_recovery: a programmed mtime is trusted, the entry is
\* promoted in place
mtime_recovery_in_place(m, i, e, now) ==
    entry_write_state(entry_write_mtime(m, i, now), i, STATE_VALID)

mtime_recovery(m, i, e, now) ==
    LET Repair(a) ==
            IF a.slot >= 0
            THEN entry_write_state(
                   entry_write_state(
                     entry_write_state(
                       entry_write_state(
                         entry_write_state(
                           entry_write_rest(
                             entry_write_state(a.m, a.slot, STATE_ALLOCATING),
                             a.slot,
                             NewEntry(e.name_len, e.name_hash, e.offset, e.size, now,
                                      e.ctime, i, ENTRY_NONE)),
                           a.slot, STATE_PENDING_DATA),
                         a.slot, STATE_TOMBSTONING_OLD),
                       i, STATE_TOMBSTONE),
                     a.slot, STATE_ACTIVE),
                   a.slot, STATE_VALID)
            ELSE a.m
    IN  IF e.mtime = MTIME_UNSET
        THEN entry_write_state(entry_write_mtime(m, i, now), i, STATE_VALID)
        ELSE Repair(mmrofs_alloc_entry(m))

active_recovery(m, i, e, now) ==
    LET Sized(sr) == mtime_recovery(sr.m, i, sr.e, now)
    IN  IF ~entry_validate(e) THEN entry_write_state(m, i, STATE_TOMBSTONE)
        ELSE Sized(size_recovery(m, i, e))

TombstoneIfLive(m, ref) ==
    IF ref # ENTRY_NONE /\ ref < max_entries /\ entry_is_live(entry_read(m, ref).state)
    THEN entry_write_state(m, ref, STATE_TOMBSTONE)
    ELSE m

tombstoning_old_recovery(m, i, e, now) ==
    LET Active(m3) == active_recovery(m3, i, entry_read(m3, i), now)
    IN  IF ~entry_validate(e) THEN entry_write_state(m, i, STATE_TOMBSTONE)
        ELSE Active(entry_write_state(
                      TombstoneIfLive(TombstoneIfLive(m, e.old_entry), e.dst_entry),
                      i, STATE_ACTIVE))

recover_slot(m, i, now) ==
    LET e == entry_read(m, i) IN
    CASE e.state = STATE_FREE ->
            IF ~AllFF(e) THEN entry_write_state(m, i, STATE_ERASED) ELSE m
      [] e.state \in {STATE_ALLOCATING, STATE_PENDING_DATA} ->
            entry_write_state(m, i, STATE_TOMBSTONE)
      [] e.state = STATE_TOMBSTONING_OLD -> tombstoning_old_recovery(m, i, e, now)
      [] e.state = STATE_ACTIVE -> active_recovery(m, i, e, now)
      [] e.state = STATE_VALID ->
            IF ~entry_validate(e) THEN entry_write_state(m, i, STATE_TOMBSTONE) ELSE m
      [] e.state \in {STATE_TOMBSTONE, STATE_BADBLOCK, STATE_ERASED} -> m
      [] OTHER -> entry_write_state(m, i, STATE_ERASED)

RECURSIVE recover_from(_, _, _, _)
recover_from(m, i, first_free, now) ==
    IF i >= max_entries THEN [m EXCEPT !.nfe = first_free]
    ELSE LET e  == entry_read(m, i)
             ff == IF e.state = STATE_FREE /\ AllFF(e) /\ i < first_free
                   THEN i ELSE first_free
         IN  recover_from(recover_slot(m, i, now), i + 1, ff, now)

mmrofs_recover(m, now) == recover_from(m, 0, max_entries, now)

\* ------------------------------------------------------ file handles
\* flags: the access mode and O_CREAT
O_RDONLY == "O_RDONLY"
O_WRONLY == "O_WRONLY"
O_RDWR   == "O_RDWR"

\* the record mmrofs_alloc_fd leaves after memset(0); a freed handle is
\* shown in the same form (its stale fields are never read while !in_use)
ZeroFd ==
    [in_use |-> FALSE, entry_index |-> 0, name_hash |-> 0, name_len |-> 0,
     filename |-> <<>>, data_offset |-> 0, flash_offset |-> 0, data_size |-> 0,
     acc |-> O_RDONLY, creat |-> FALSE, fd_state |-> FD_STATE_UNUSED,
     old_entry_index |-> 0, old_data_size |-> 0, old_ctime |-> 0]

Fds == 0 .. (MaxFiles - 1)

mmrofs_alloc_fd(fds) ==
    IF \E i \in Fds : ~fds[i].in_use
    THEN CHOOSE i \in Fds : ~fds[i].in_use /\ \A j \in Fds : ~fds[j].in_use => i <= j
    ELSE -1

mmrofs_free_fd(fds, fd) == [fds EXCEPT ![fd] = ZeroFd]

Result(m, fds, ret, errno) == [m |-> m, fds |-> fds, ret |-> ret, errno |-> errno]

\* ---- open ----
vfs_open(m, fds, path, acc, creat) ==
    LET hash == fnv1a32(path)
        fd   == mmrofs_alloc_fd(fds)
        f0   == [ZeroFd EXCEPT !.in_use = TRUE, !.entry_index = FD_NO_ENTRY,
                               !.name_hash = hash, !.name_len = Len(path),
                               !.filename = path, !.acc = acc, !.creat = creat,
                               !.data_offset = 0]
        Looked(lk, existing) ==
            IF fd < 0 THEN Result(lk.m, fds, -1, "ENFILE")
            ELSE IF acc = O_RDONLY
            THEN IF lk.idx < 0 THEN Result(lk.m, fds, -1, "ENOENT")
                 ELSE Result(lk.m,
                        [fds EXCEPT ![fd] =
                            [f0 EXCEPT !.entry_index = lk.idx,
                                       !.flash_offset = existing.offset,
                                       !.data_size = U32(existing.size - existing.name_len),
                                       !.fd_state = FD_STATE_COMMITTED]],
                        fd, "OK")
            ELSE IF lk.idx >= 0
            THEN Result(lk.m,
                    [fds EXCEPT ![fd] =
                        [f0 EXCEPT !.fd_state = FD_STATE_PENDING_UPDATE,
                                   !.old_entry_index = lk.idx,
                                   !.old_ctime = existing.ctime,
                                   !.old_data_size =
                                       IF entry_is_live(existing.state)
                                          /\ ~is_capacity_mask(existing.size)
                                       THEN U32(existing.size - existing.name_len)
                                       ELSE SIZE_UNKNOWN,
                                   !.flash_offset = existing.offset]],
                    fd, "OK")
            ELSE IF ~creat THEN Result(lk.m, fds, -1, "ENOENT")
            ELSE Result(lk.m,
                    [fds EXCEPT ![fd] = [f0 EXCEPT !.fd_state = FD_STATE_PENDING_NEW,
                                                   !.old_data_size = 0]],
                    fd, "OK")
        Lookup(lk) == Looked(lk, entry_read(lk.m, lk.idx))
    IN  Lookup(mmrofs_lookup(m, path, hash))

\* copy loop: read a chunk from the flash, program it at dst
RECURSIVE copy_data(_, _, _, _)
copy_data(m, src_pos, dst_pos, remaining) ==
    IF remaining = 0 THEN m
    ELSE LET chunk == IF remaining > COPY_BUF_SIZE THEN COPY_BUF_SIZE ELSE remaining
         IN  copy_data(flash_write(m, dst_pos, mmrofs_data_read(m, src_pos, chunk)),
                       src_pos + chunk, dst_pos + chunk, remaining - chunk)

\* ---- write: first write of a new file ----
write_pending_new(m, fds, fd, data, now) ==
    LET f             == fds[fd]
        size          == Len(data)
        total_size    == U32(f.name_len + size)
        alloc_size    == align_up_4k(total_size)
        capacity_mask == U32(alloc_size - 1)
        Written(slot, data_offset, m3) ==
            IF m3.err
            THEN Result(entry_write_state(m3, slot, STATE_TOMBSTONE), fds, -1, "EIO")
            ELSE Result(entry_write_state(m3, slot, STATE_ACTIVE),
                    [fds EXCEPT ![fd] = [f EXCEPT !.entry_index = slot,
                                                  !.flash_offset = data_offset,
                                                  !.data_size = size,
                                                  !.fd_state = FD_STATE_COMMITTED]],
                    size, "OK")
        Named(slot, data_offset, m2) ==
            IF m2.err
            THEN Result(entry_write_state(m2, slot, STATE_TOMBSTONE), fds, -1, "EIO")
            ELSE Written(slot, data_offset,
                         flash_write(m2, data_offset + f.name_len, data))
        Created(ce, data_offset) ==
            IF ce.slot < 0 THEN Result(ce.m, fds, -1, "ENOSPC")
            ELSE Named(ce.slot, data_offset, flash_write(ce.m, data_offset, f.filename))
        Placed(ffd) ==
            IF ~ffd.ok THEN Result(m, fds, -1, "ENOSPC")
            ELSE Created(mmrofs_create_entry(flash_erase(m, ffd.offset, alloc_size),
                                             f.name_len, f.name_hash, ffd.offset,
                                             capacity_mask, now, ENTRY_NONE, ENTRY_NONE),
                         ffd.offset)
    IN  Placed(mmrofs_find_free_data(m, alloc_size))

\* the append flow with the new entry made ACTIVE before its data is programmed
write_append_active_first(m, fds, fd, data, old_entry, new_total, old_alloc) ==
    LET f             == fds[fd]
        size          == Len(data)
        new_alloc     == align_up_4k(new_total)
        capacity_mask == U32(new_alloc - 1)
        write_pos     == old_entry.offset + f.name_len + f.old_data_size
        Created(ce) ==
            IF ce.slot < 0 THEN Result(ce.m, fds, -1, "ENOSPC")
            ELSE Result(flash_write(mmrofs_tombstone_old_flow(ce.m, ce.slot, f.old_entry_index,
                                                              ENTRY_NONE),
                                    write_pos, data),
                    [fds EXCEPT ![fd] = [f EXCEPT !.entry_index = ce.slot,
                                                  !.flash_offset = old_entry.offset,
                                                  !.data_size = U32(f.old_data_size + size),
                                                  !.fd_state = FD_STATE_COMMITTED]],
                    size, "OK")
    IN  Created(mmrofs_create_entry(
                    IF new_alloc > old_alloc
                    THEN flash_erase(m, old_entry.offset + old_alloc, new_alloc - old_alloc)
                    ELSE m,
                    f.name_len, f.name_hash, old_entry.offset, capacity_mask,
                    f.old_ctime, f.old_entry_index, ENTRY_NONE))

\* ---- write: first write on an existing file (append or full rewrite) ----
write_append(m, fds, fd, data, old_entry, new_total, old_alloc) ==
    LET f             == fds[fd]
        size          == Len(data)
        new_alloc     == align_up_4k(new_total)
        capacity_mask == U32(new_alloc - 1)
        write_pos     == old_entry.offset + f.name_len + f.old_data_size
        Created(ce) ==
            IF ce.slot < 0 THEN Result(ce.m, fds, -1, "ENOSPC")
            ELSE Result(mmrofs_tombstone_old_flow(flash_write(ce.m, write_pos, data),
                                                  ce.slot, f.old_entry_index, ENTRY_NONE),
                    [fds EXCEPT ![fd] = [f EXCEPT !.entry_index = ce.slot,
                                                  !.flash_offset = old_entry.offset,
                                                  !.data_size = U32(f.old_data_size + size),
                                                  !.fd_state = FD_STATE_COMMITTED]],
                    size, "OK")
    IN  Created(mmrofs_create_entry(
                    IF new_alloc > old_alloc
                    THEN flash_erase(m, old_entry.offset + old_alloc, new_alloc - old_alloc)
                    ELSE m,
                    f.name_len, f.name_hash, old_entry.offset, capacity_mask,
                    f.old_ctime, f.old_entry_index, ENTRY_NONE))

write_rewrite(m, fds, fd, data, old_entry, new_total) ==
    LET f             == fds[fd]
        size          == Len(data)
        new_alloc     == align_up_4k(new_total)
        capacity_mask == U32(new_alloc - 1)
        Copied(slot, new_offset, m3) ==
            Result(mmrofs_tombstone_old_flow(
                       flash_write(m3, new_offset + f.name_len + f.old_data_size, data),
                       slot, f.old_entry_index, ENTRY_NONE),
                [fds EXCEPT ![fd] = [f EXCEPT !.entry_index = slot,
                                              !.flash_offset = new_offset,
                                              !.data_size = U32(f.old_data_size + size),
                                              !.fd_state = FD_STATE_COMMITTED]],
                size, "OK")
        Created(ce, new_offset) ==
            IF ce.slot < 0 THEN Result(ce.m, fds, -1, "ENOSPC")
            ELSE Copied(ce.slot, new_offset,
                        copy_data(flash_write(ce.m, new_offset, f.filename),
                                  old_entry.offset + old_entry.name_len,
                                  new_offset + f.name_len, f.old_data_size))
        Placed(ffd) ==
            IF ~ffd.ok THEN Result(m, fds, -1, "ENOSPC")
            ELSE Created(mmrofs_create_entry(flash_erase(m, ffd.offset, new_alloc),
                                             f.name_len, f.name_hash, ffd.offset,
                                             capacity_mask, f.old_ctime,
                                             f.old_entry_index, ENTRY_NONE),
                         ffd.offset)
    IN  Placed(mmrofs_find_free_data(m, new_alloc))

\* mutant of write_pending_update: the unknown old size is not checked
write_pending_update_unchecked(m, fds, fd, data) ==
    LET f         == fds[fd]
        old_entry == entry_read(m, f.old_entry_index)
        new_total == U32(f.name_len + f.old_data_size + Len(data))
        old_alloc == entry_allocated_bytes(old_entry)
    IN  IF mmrofs_space_after_free(m, old_entry.offset, old_alloc, new_total)
        THEN write_append(m, fds, fd, data, old_entry, new_total, old_alloc)
        ELSE write_rewrite(m, fds, fd, data, old_entry, new_total)

write_pending_update(m, fds, fd, data) ==
    LET f         == fds[fd]
        old_entry == entry_read(m, f.old_entry_index)
        new_total == U32(f.name_len + f.old_data_size + Len(data))
        old_alloc == entry_allocated_bytes(old_entry)
    IN  IF f.old_data_size = SIZE_UNKNOWN THEN Result(m, fds, -1, "EIO")
        ELSE IF mmrofs_space_after_free(m, old_entry.offset, old_alloc, new_total)
        THEN write_append(m, fds, fd, data, old_entry, new_total, old_alloc)
        ELSE write_rewrite(m, fds, fd, data, old_entry, new_total)

\* ---- write: subsequent writes on a committed handle ----
OrMaskBits(x) == x - (x % MMROFS_ERASE_BLOCK_SIZE) + CAPACITY_MASK_BITS

write_expand_in_place(m, fds, fd, data, cur, cur_alloc, new_capacity, new_data_total) ==
    LET f           == fds[fd]
        extra_alloc == align_up_4k(new_capacity + 1) - cur_alloc
        Created(ce) ==
            IF ce.slot < 0 THEN Result(ce.m, fds, -1, "ENOSPC")
            ELSE Result(flash_write(
                            mmrofs_tombstone_old_flow(ce.m, ce.slot, f.entry_index,
                                                      ENTRY_NONE),
                            f.flash_offset + f.name_len + f.data_size, data),
                    [fds EXCEPT ![fd] = [f EXCEPT !.entry_index = ce.slot,
                                                  !.data_size = new_data_total]],
                    Len(data), "OK")
    IN  Created(mmrofs_create_entry(
                    IF extra_alloc > 0
                    THEN flash_erase(m, f.flash_offset + cur_alloc, extra_alloc)
                    ELSE m,
                    f.name_len, f.name_hash, f.flash_offset, new_capacity, cur.ctime,
                    f.entry_index, ENTRY_NONE))

write_expand_relocate(m, fds, fd, data, cur, new_capacity, new_data_total) ==
    LET f          == fds[fd]
        new_alloc  == align_up_4k(new_capacity + 1)
        Copied(slot, new_offset, m3) ==
            Result(flash_write(
                       mmrofs_tombstone_old_flow(m3, slot, f.entry_index, ENTRY_NONE),
                       new_offset + f.name_len + f.data_size, data),
                [fds EXCEPT ![fd] = [f EXCEPT !.entry_index = slot,
                                              !.flash_offset = new_offset,
                                              !.data_size = new_data_total]],
                Len(data), "OK")
        Created(ce, new_offset) ==
            IF ce.slot < 0 THEN Result(ce.m, fds, -1, "ENOSPC")
            ELSE Copied(ce.slot, new_offset,
                        copy_data(flash_write(ce.m, new_offset, f.filename),
                                  f.flash_offset + f.name_len,
                                  new_offset + f.name_len, f.data_size))
        Placed(ffd) ==
            IF ~ffd.ok THEN Result(m, fds, -1, "ENOSPC")
            ELSE Created(mmrofs_create_entry(flash_erase(m, ffd.offset, new_alloc),
                                             f.name_len, f.name_hash, ffd.offset,
                                             new_capacity, cur.ctime, f.entry_index,
                                             ENTRY_NONE),
                         ffd.offset)
    IN  Placed(mmrofs_find_free_data(m, new_alloc))

write_committed(m, fds, fd, data) ==
    LET f              == fds[fd]
        cur            == entry_read(m, f.entry_index)
        new_data_total == U32(f.data_size + Len(data))
        new_total      == U32(f.name_len + new_data_total)
        cur_alloc      == entry_allocated_bytes(cur)
        new_capacity   == OrMaskBits(new_total)
        InPlace(m1) ==
            IF m1.err THEN Result(m1, fds, -1, "EIO")
            ELSE Result(m1, [fds EXCEPT ![fd].data_size = new_data_total],
                        Len(data), "OK")
    IN  IF new_total <= cur_alloc
        THEN InPlace(flash_write(m, f.flash_offset + f.name_len + f.data_size, data))
        ELSE IF mmrofs_space_after_free(m, f.flash_offset, cur_alloc,
                                        align_up_4k(new_capacity + 1))
        THEN write_expand_in_place(m, fds, fd, data, cur, cur_alloc, new_capacity,
                                   new_data_total)
        ELSE write_expand_relocate(m, fds, fd, data, cur, new_capacity, new_data_total)

vfs_write(m, fds, fd, data, now) ==
    LET f == fds[fd] IN
    IF ~f.in_use THEN Result(m, fds, -1, "EBADF")
    ELSE IF f.acc = O_RDONLY THEN Result(m, fds, -1, "EBADF")
    ELSE IF Len(data) = 0 THEN Result(m, fds, 0, "OK")
    ELSE IF f.fd_state = FD_STATE_PENDING_NEW THEN write_pending_new(m, fds, fd, data, now)
    ELSE IF f.fd_state = FD_STATE_PENDING_UPDATE THEN write_pending_update(m, fds, fd, data)
    ELSE IF f.fd_state = FD_STATE_COMMITTED THEN write_committed(m, fds, fd, data)
    ELSE Result(m, fds, -1, "EBADF")

\* ---- read: the bytes a read to EOF returns from the cursor ----
vfs_read(m, fds, fd) ==
    LET f == fds[fd] IN
    IF f.fd_state # FD_STATE_COMMITTED \/ f.data_offset >= f.data_size THEN <<>>
    ELSE mmrofs_data_read(m, f.flash_offset + f.name_len + f.data_offset,
                          f.data_size - f.data_offset)

\* ---- close ----
vfs_close(m, fds, fd, now) ==
    LET f == fds[fd]
    IN  IF ~f.in_use THEN Result(m, fds, -1, "EBADF")
        ELSE IF f.acc = O_RDONLY THEN Result(m, mmrofs_free_fd(fds, fd), 0, "OK")
        ELSE IF f.fd_state = FD_STATE_COMMITTED
        THEN Result(entry_write_state(
                        entry_write_size(
                            entry_write_mtime(m, f.entry_index, now),
                            f.entry_index, U32(f.name_len + f.data_size)),
                        f.entry_index, STATE_VALID),
                    mmrofs_free_fd(fds, fd), 0, "OK")
        ELSE Result(m, mmrofs_free_fd(fds, fd), 0, "OK")

\* ---- stat ----
vfs_stat(m, path) ==
    LET Looked(lk, e) ==
            IF lk.idx < 0
            THEN [m |-> lk.m, ret |-> -1, errno |-> "ENOENT", st_size |-> 0,
                  st_mtime |-> 0, st_ctime |-> 0]
            ELSE [m |-> lk.m, ret |-> 0, errno |-> "OK",
                  st_size |-> U32(e.size - e.name_len),
                  st_mtime |-> IF e.mtime = MTIME_UNSET THEN 0 ELSE e.mtime,
                  st_ctime |-> e.ctime]
        Lookup(lk) == Looked(lk, entry_read(lk.m, lk.idx))
    IN  Lookup(mmrofs_lookup(m, path, fnv1a32(path)))

\* ---- unlink ----
vfs_unlink(m, fds, path) ==
    LET Looked(lk) ==
            IF lk.idx < 0 THEN Result(lk.m, fds, -1, "ENOENT")
            ELSE Result(entry_write_state(lk.m, lk.idx, STATE_TOMBSTONE), fds, 0, "OK")
    IN  Looked(mmrofs_lookup(m, path, fnv1a32(path)))

\* ---- rename ----
vfs_rename(m, fds, src_path, dst_path, now) ==
    LET src_hash == fnv1a32(src_path)
        dst_hash == fnv1a32(dst_path)
        Copied(src_idx, dst_idx, new_slot, m3) ==
            Result(entry_write_state(
                     entry_write_state(
                       entry_write_mtime(
                         IF dst_idx >= 0
                         THEN entry_write_state(
                                entry_write_state(
                                  entry_write_state(m3, new_slot, STATE_TOMBSTONING_OLD),
                                  src_idx, STATE_TOMBSTONE),
                                dst_idx, STATE_TOMBSTONE)
                         ELSE entry_write_state(
                                entry_write_state(m3, new_slot, STATE_TOMBSTONING_OLD),
                                src_idx, STATE_TOMBSTONE),
                         new_slot, now),
                       new_slot, STATE_ACTIVE),
                     new_slot, STATE_VALID),
                   fds, 0, "OK")
        Created(src_idx, dst_idx, src_entry, src_data_size, new_offset, ce) ==
            IF ce.slot < 0 THEN Result(ce.m, fds, -1, "ENOSPC")
            ELSE Copied(src_idx, dst_idx, ce.slot,
                        copy_data(flash_write(ce.m, new_offset, dst_path),
                                  src_entry.offset + src_entry.name_len,
                                  new_offset + Len(dst_path), src_data_size))
        Placed(src_idx, dst_idx, src_entry, src_data_size, new_total, new_alloc, dm, ffd) ==
            IF ~ffd.ok THEN Result(dm, fds, -1, "ENOSPC")
            ELSE Created(src_idx, dst_idx, src_entry, src_data_size, ffd.offset,
                         mmrofs_create_entry(flash_erase(dm, ffd.offset, new_alloc),
                                             Len(dst_path), dst_hash, ffd.offset,
                                             new_total, src_entry.ctime, src_idx,
                                             IF dst_idx >= 0 THEN dst_idx ELSE ENTRY_NONE))
        Sized(src_idx, src_entry, dl, src_data_size, new_total, new_alloc) ==
            Placed(src_idx, dl.idx, src_entry, src_data_size, new_total, new_alloc, dl.m,
                   mmrofs_find_free_data(dl.m, new_alloc))
        DstLooked(src_idx, src_entry, dl) ==
            Sized(src_idx, src_entry, dl,
                  U32(src_entry.size - src_entry.name_len),
                  U32(Len(dst_path) + U32(src_entry.size - src_entry.name_len)),
                  align_up_4k(U32(Len(dst_path) + U32(src_entry.size - src_entry.name_len))))
        SrcLooked(sl) ==
            IF sl.idx < 0 THEN Result(sl.m, fds, -1, "ENOENT")
            ELSE DstLooked(sl.idx, entry_read(sl.m, sl.idx),
                           mmrofs_lookup(sl.m, dst_path, dst_hash))
    IN  SrcLooked(mmrofs_lookup(m, src_path, src_hash))


\* ===================================================== state machine
VARIABLES
    hdr,              \* flash: the entry table
    data,             \* flash: the data region, byte by byte
    fds,              \* RAM: the FD table
    next_free_entry,  \* RAM: the allocation hint
    now,              \* the wall clock, time(NULL)
    power,            \* "on": mounted; "off": power lost, not yet remounted
    ev,               \* history: the step that led to this state
    hg,               \* history per handle: what the caller was acknowledged
    calls,            \* history: the number of calls and power losses so far
    mutex,            \* RAM: the task that holds the recursive mutex, or NoTask
    mmap,             \* RAM: the sliding data-read window (mmap_valid, mmap_offset)
    task              \* per task: the statement it is at and its call's arguments

vars == <<hdr, data, fds, next_free_entry, now, power, ev, hg, calls, mutex, mmap, task>>

\* the state of the tasks; the specifications with one caller leave it alone
conc == <<mutex, mmap, task>>

NameA == <<97>>
NameB == <<98, 98>>
Names == {NameA, NameB}
\* the byte strings the write calls of each specification draw from
CrashInputs == {<<65>>, <<255, 65>>, <<65, 65, 65>>}
ShareInputs == {<<>>, <<65>>, <<65, 65>>}
RenameInputs == {<<65>>, <<255, 255, 255>>}
FailInputs == {<<65>>, <<65, 65>>}
ModeCreate == <<O_WRONLY, TRUE>>
ModeUpdate == <<O_RDWR, FALSE>>
ModeRead   == <<O_RDONLY, FALSE>>

\* ---- observations of the flash ----
StoredName(h, d, i) == ReadBytes(d, h[i].offset, h[i].name_len)

LiveSlots(h) == {i \in Slots : entry_is_live(h[i].state)}

LiveNames(h, d) == {StoredName(h, d, i) : i \in LiveSlots(h)}

SlotsNamed(h, d, name) ==
    {i \in LiveSlots(h) : h[i].name_hash = fnv1a32(name) /\ h[i].name_len = Len(name)
                          /\ StoredName(h, d, i) = name}

\* what open(name, O_RDONLY) followed by reads to EOF returns, and the size
\* stat(name) reports
Observe(h, d, name) ==
    LET m == Machine(h, d, 0, NoStop, NoFail)
        Opened(r) ==
            IF r.ret < 0 THEN [found |-> FALSE, bytes |-> <<>>, size |-> 0]
            ELSE [found |-> TRUE, bytes |-> vfs_read(r.m, r.fds, r.ret),
                  size |-> vfs_stat(m, name).st_size]
    IN  Opened(vfs_open(m, [i \in Fds |-> ZeroFd], name, O_RDONLY, FALSE))

\* the flash after mount recovery ran to completion over (h, d)
Recovered(h, d, t) == mmrofs_recover(Machine(h, d, 0, NoStop, NoFail), t)

\* tasks of the host that call into the file system
Tasks    == 1 .. NumTasks
NoTask   == 0
NoArg    == [name |-> <<>>, fd |-> -1, size |-> 0]

\* handle history of a write handle: the file content the caller expects (the
\* content at open followed by every acknowledged byte), the number of bytes
\* acknowledged, whether the handle created the name, whether no other
\* call was made since it was opened, the state byte of the entry the name
\* had at open, and the slots the handle's writes have made its entry
NoHg == [expect |-> <<>>, acked |-> 0, fresh |-> FALSE, alone |-> FALSE,
         writer |-> FALSE, opened |-> STATE_FREE, slots |-> {}]

Step(op, name, arg, fd, k, fail, ret, post) ==
    [op |-> op, name |-> name, arg |-> arg, fd |-> fd, k |-> k, fail |-> fail,
     ret |-> ret, post |-> post]

Init ==
    /\ hdr = [i \in Slots |-> FreeEntry]
    /\ data = [a \in DataAddrs |-> 255]
    /\ fds = [i \in Fds |-> ZeroFd]
    /\ next_free_entry = 0
    /\ now = 1
    /\ power = "on"
    /\ ev = Step("init", <<>>, <<>>, -1, NoStop, NoFail, 0, {})
    /\ hg = [i \in Fds |-> NoHg]
    /\ calls = 0
    /\ mutex = NoTask
    /\ mmap = [valid |-> FALSE, offset |-> 0]
    /\ task = [pc |-> [t \in Tasks |-> "idle"], arg |-> [t \in Tasks |-> NoArg],
               actor |-> NoTask]

\* the (stop, fail) pairs a call is run under: to completion; with power
\* lost after k flash operations; with flash program j rejected
Complete == <<NoStop, NoFail>>

Runs(nops, crashes, failures) ==
    {Complete}
    \cup (IF crashes THEN {<<k, NoFail>> : k \in 1 .. (nops - 1)} ELSE {})
    \cup (IF failures THEN {<<NoStop, j>> : j \in 0 .. (nops - 1)} ELSE {})

M0(run) == Machine(hdr, data, next_free_entry, run[1], run[2])

Others(h, fd) == [i \in Fds |-> IF i = fd THEN h[i] ELSE [h[i] EXCEPT !.alone = FALSE]]

\* the effect of a call that ran as r under `run`; full is the same call run
\* to completion, hg2 the handle history when the call returns
Effect(op, name, arg, fd, run, r, full, hg2) ==
    LET post == LiveNames(full.m.hdr, full.m.data) IN
    IF run[1] # NoStop
    THEN /\ hdr' = r.m.hdr
         /\ data' = r.m.data
         /\ power' = "off"
         /\ fds' = [i \in Fds |-> ZeroFd]
         /\ next_free_entry' = 0
         /\ hg' = [i \in Fds |-> NoHg]
         /\ ev' = Step(op, name, arg, fd, run[1], run[2], -2, post)
         /\ now' = now
         /\ calls' = calls + 1
         /\ UNCHANGED conc
    ELSE IF r.ret < 0 /\ r.m.hdr = hdr /\ r.m.data = data /\ r.fds = fds
    THEN UNCHANGED vars
    ELSE /\ hdr' = r.m.hdr
         /\ data' = r.m.data
         /\ power' = "on"
         /\ fds' = r.fds
         /\ next_free_entry' = r.m.nfe
         /\ hg' = hg2
         /\ ev' = Step(op, name, arg, fd, NoStop, run[2], r.ret, post)
         /\ now' = now
         /\ calls' = calls + 1
         /\ UNCHANGED conc

OpenAct(budget, names, modes, limit, crashes, failures) ==
    /\ power = "on"
    /\ calls < budget
    /\ Cardinality({i \in Fds : fds[i].in_use}) < limit
    /\ \E name \in names, mode \in modes :
         LET R(run) == vfs_open(M0(run), fds, name, mode[1], mode[2]) IN
         \E full \in {R(Complete)} :
           \E run \in Runs(full.m.n, crashes, failures) :
             \E r \in {R(run)} :
               LET st == r.fds[r.ret].fd_state IN
               Effect("open", name, <<>>, r.ret, run, r, full,
                      IF r.ret >= 0 /\ mode[1] # O_RDONLY
                      THEN [Others(hg, -1) EXCEPT ![r.ret] =
                              [expect |-> IF st = FD_STATE_PENDING_NEW THEN <<>>
                                          ELSE Observe(hdr, data, name).bytes,
                               acked |-> 0,
                               fresh |-> st = FD_STATE_PENDING_NEW,
                               alone |-> TRUE, writer |-> TRUE,
                               opened |-> IF st = FD_STATE_PENDING_UPDATE
                                          THEN hdr[r.fds[r.ret].old_entry_index].state
                                          ELSE STATE_FREE,
                               slots |-> {}]]
                      ELSE Others(hg, -1))

WriteAct(budget, inputs, crashes, failures) ==
    /\ power = "on"
    /\ calls < budget
    /\ \E fd \in Fds, bytes \in inputs :
         /\ fds[fd].in_use
         /\ fds[fd].acc # O_RDONLY
         /\ LET R(run) == vfs_write(M0(run), fds, fd, bytes, now) IN
            \E full \in {R(Complete)} :
              \E run \in Runs(full.m.n, crashes, failures) :
                \E r \in {R(run)} :
                  Effect("write", fds[fd].filename, bytes, fd, run, r, full,
                         IF r.ret >= 0
                         THEN [Others(hg, fd) EXCEPT ![fd].expect = @ \o bytes,
                                                     ![fd].acked = @ + Len(bytes),
                                                     ![fd].slots =
                                                        @ \cup {r.fds[fd].entry_index}]
                         ELSE Others(hg, fd))

CloseAct(budget, crashes, failures) ==
    /\ power = "on"
    /\ calls < budget
    /\ \E fd \in Fds :
         /\ fds[fd].in_use
         /\ LET R(run) == vfs_close(M0(run), fds, fd, now) IN
            \E full \in {R(Complete)} :
              \E run \in Runs(full.m.n, crashes, failures) :
                \E r \in {R(run)} :
                  Effect("close", fds[fd].filename, <<>>, fd, run, r, full,
                         [Others(hg, fd) EXCEPT ![fd] = NoHg])

UnlinkAct(budget, names, crashes, failures) ==
    /\ power = "on"
    /\ calls < budget
    /\ \E name \in names :
         LET R(run) == vfs_unlink(M0(run), fds, name) IN
         \E full \in {R(Complete)} :
           \E run \in Runs(full.m.n, crashes, failures) :
             \E r \in {R(run)} :
               Effect("unlink", name, <<>>, -1, run, r, full, Others(hg, -1))

RenameAct(budget, names, crashes, failures) ==
    /\ power = "on"
    /\ calls < budget
    /\ \E src \in names, dst \in names :
         /\ src # dst
         /\ LET R(run) == vfs_rename(M0(run), fds, src, dst, now) IN
            \E full \in {R(Complete)} :
              \E run \in Runs(full.m.n, crashes, failures) :
                \E r \in {R(run)} :
                  Effect("rename", src, dst, -1, run, r, full, Others(hg, -1))

\* power is lost between two calls
PowerLoss(budget) ==
    /\ power = "on"
    /\ calls < budget
    /\ power' = "off"
    /\ fds' = [i \in Fds |-> ZeroFd]
    /\ next_free_entry' = 0
    /\ hg' = [i \in Fds |-> NoHg]
    /\ ev' = Step("idle", <<>>, <<>>, -1, 0, NoFail, -2, LiveNames(hdr, data))
    /\ calls' = calls + 1
    /\ UNCHANGED <<hdr, data, now>>
    /\ UNCHANGED conc

\* the slots on which a recovery that issued log programmed the fields of a
\* replacement entry (torn mtime repair)
Repairs(log) ==
    LET IsMeta(rec) == rec.kind = "meta"
    IN  [n \in 1 .. Len(SelectSeq(log, IsMeta)) |-> SelectSeq(log, IsMeta)[n].at]

\* boot-time clock: a host clock t before 1990 is set to the largest mtime
\* or ctime of the entries that are live in the table as it is read at this
\* point, when that is above 0
mmrofs_init_clock(m, t) ==
    LET live  == {i \in Slots : entry_is_live(entry_read(m, i).state)}
        times == {entry_read(m, i).mtime :
                      i \in {j \in live : entry_read(m, j).mtime # MTIME_UNSET}}
                 \cup {entry_read(m, i).ctime : i \in live} \cup {0}
        max_time == CHOOSE x \in times : \A y \in times : x >= y
    IN  IF t < YEAR_1990 /\ max_time > 0 THEN max_time ELSE t

\* mmrofs_register_vfs after a reboot: a fresh context, the clock
\* initialisation, then recovery; the recovery itself may lose power; the
\* step records the slots repaired
Mount(crashes) ==
    /\ power = "off"
    /\ LET R(run) == mmrofs_recover(M0(run), mmrofs_init_clock(M0(Complete), now)) IN
       \E full \in {R(Complete)} :
         \E run \in Runs(full.n, crashes, FALSE) :
           \E r \in {R(run)} :
             /\ hdr' = r.hdr
             /\ data' = r.data
             /\ fds' = [i \in Fds |-> ZeroFd]
             /\ hg' = [i \in Fds |-> NoHg]
             /\ now' = mmrofs_init_clock(M0(Complete), now)
             /\ calls' = calls
             /\ UNCHANGED conc
             /\ ev' = Step("mount", <<>>, Repairs(r.log), -1, run[1], NoFail,
                           IF run[1] # NoStop THEN -2 ELSE 0,
                           LiveNames(full.hdr, full.data))
             /\ IF run[1] # NoStop
                THEN power' = "off" /\ next_free_entry' = 0
                ELSE power' = "on" /\ next_free_entry' = r.nfe

Tick(budget) ==
    /\ power = "on"
    /\ calls < budget
    /\ now < MaxTime
    /\ now' = now + 1
    /\ ev' = Step("tick", <<>>, <<>>, -1, NoStop, NoFail, 0, LiveNames(hdr, data))
    /\ UNCHANGED <<hdr, data, fds, next_free_entry, power, hg, calls>>
    /\ UNCHANGED conc

\* power-loss specification: one file, one handle at a time

Next ==
    \/ OpenAct(MaxCalls, {NameB}, {ModeCreate}, 1, TRUE, FALSE)
    \/ WriteAct(MaxCalls, CrashInputs, TRUE, FALSE)
    \/ CloseAct(MaxCalls, TRUE, FALSE)
    \/ UnlinkAct(MaxCalls, {NameB}, TRUE, FALSE)
    \/ PowerLoss(MaxCalls)
    \/ Mount(FALSE)

Spec == Init /\ [][Next]_vars

\* several handles on one name, no power loss
NextShare ==
    \/ OpenAct(MaxCallsShare, {NameA}, {ModeCreate}, MaxFiles, FALSE, FALSE)
    \/ WriteAct(MaxCallsShare, ShareInputs, FALSE, FALSE)
    \/ CloseAct(MaxCallsShare, FALSE, FALSE)
    \/ UnlinkAct(MaxCallsShare, {NameA}, FALSE, FALSE)

SpecShare == Init /\ [][NextShare]_vars

\* rename between two names, power lost inside rename
NextRename ==
    \/ OpenAct(MaxCallsRename, Names, {ModeCreate}, MaxFiles, FALSE, FALSE)
    \/ WriteAct(MaxCallsRename, RenameInputs, FALSE, FALSE)
    \/ CloseAct(MaxCallsRename, FALSE, FALSE)
    \/ RenameAct(MaxCallsRename, Names, TRUE, FALSE)
    \/ Mount(FALSE)
    \/ Tick(MaxCallsRename)

SpecRename == Init /\ [][NextRename]_vars

\* the flash device rejects one program of a call
NextFail ==
    \/ OpenAct(MaxCallsFail, Names, {ModeCreate}, 1, FALSE, FALSE)
    \/ WriteAct(MaxCallsFail, FailInputs, FALSE, TRUE)
    \/ CloseAct(MaxCallsFail, FALSE, FALSE)
    \/ RenameAct(MaxCallsFail, Names, FALSE, TRUE)

SpecFail == Init /\ [][NextFail]_vars

\* ------------------------------------------------------------- tasks
\* Two tasks call open (read-only), read and close on two closed files that
\* lie in different windows of the data region.  A call is a sequence of
\* steps; the steps of different tasks interleave.

\* mmrofs_map_window: the window state after mapping the window of offset
mmrofs_map_window(mm, offset) ==
    LET window_start == offset - (offset % MMROFS_MMAP_WINDOW_SIZE)
    IN  IF mm.valid /\ mm.offset = window_start THEN mm
        ELSE [valid |-> TRUE, offset |-> window_start]

InWindow(tk) == {t \in Tasks : tk.pc[t] \in {"open_map", "read_map"}}

At(t, pc) == task.pc[t] = pc

Goto(t, pc, arg) ==
    task' = [pc |-> [task.pc EXCEPT ![t] = pc],
             arg |-> [task.arg EXCEPT ![t] = arg], actor |-> t]

\* the flash image and RAM after a was written with four bytes and bb with
\* one, both closed
InitTasks ==
    \E o1 \in {vfs_open(Machine([i \in Slots |-> FreeEntry], [a \in DataAddrs |-> 255],
                                0, NoStop, NoFail),
                        [i \in Fds |-> ZeroFd], NameA, O_WRONLY, TRUE)} :
    \E w1 \in {vfs_write(o1.m, o1.fds, o1.ret, <<65, 66, 67, 68>>, 1)} :
    \E c1 \in {vfs_close(w1.m, w1.fds, o1.ret, 1)} :
    \E o2 \in {vfs_open(c1.m, c1.fds, NameB, O_WRONLY, TRUE)} :
    \E w2 \in {vfs_write(o2.m, o2.fds, o2.ret, <<69>>, 1)} :
    \E c2 \in {vfs_close(w2.m, w2.fds, o2.ret, 1)} :
        /\ hdr = c2.m.hdr
        /\ data = c2.m.data
        /\ fds = c2.fds
        /\ next_free_entry = c2.m.nfe
        /\ now = 1
        /\ power = "on"
        /\ ev = Step("init", <<>>, <<>>, -1, NoStop, NoFail, 0, {})
        /\ hg = [i \in Fds |-> NoHg]
        /\ calls = 0
        /\ mutex = NoTask
        /\ mmap = [valid |-> FALSE, offset |-> 0]
        /\ task = [pc |-> [t \in Tasks |-> "idle"], arg |-> [t \in Tasks |-> NoArg],
                   actor |-> NoTask]

Flash == <<hdr, data, next_free_entry, now, power, ev, hg, calls>>

\* vfs_open(name, O_RDONLY): mmrofs_lock
OpenLock(t) ==
    /\ At(t, "idle") /\ mutex = NoTask
    /\ \E name \in Names :
         /\ mmrofs_lookup(M0(Complete), name, fnv1a32(name)).idx >= 0
         /\ Goto(t, "open_locked", [NoArg EXCEPT !.name = name])
    /\ mutex' = t
    /\ UNCHANGED <<fds, mmap>> /\ UNCHANGED Flash

\* mmrofs_lookup reads the stored name: mmrofs_data_read enters mmrofs_map_window
OpenLookup(t) ==
    /\ At(t, "open_locked")
    /\ Goto(t, "open_map", task.arg[t])
    /\ UNCHANGED <<fds, mmap, mutex>> /\ UNCHANGED Flash

\* mmrofs_map_window returns
OpenMapped(t) ==
    /\ At(t, "open_map")
    /\ \E lk \in {mmrofs_lookup(M0(Complete), task.arg[t].name, fnv1a32(task.arg[t].name))} :
         mmap' = mmrofs_map_window(mmap, hdr[lk.idx].offset)
    /\ Goto(t, "open_fill", task.arg[t])
    /\ UNCHANGED <<fds, mutex>> /\ UNCHANGED Flash

\* the handle is allocated and filled, mmrofs_unlock, return
OpenReturn(t) ==
    /\ At(t, "open_fill")
    /\ \E r \in {vfs_open(M0(Complete), fds, task.arg[t].name, O_RDONLY, FALSE)} :
         fds' = r.fds
    /\ mutex' = NoTask
    /\ Goto(t, "idle", NoArg)
    /\ UNCHANGED mmap /\ UNCHANGED Flash

\* vfs_read(fd) up to the call of mmrofs_data_read; the mutex is not taken
ReadEnter(t) ==
    /\ At(t, "idle")
    /\ \E fd \in Fds :
         /\ fds[fd].in_use
         /\ fds[fd].fd_state = FD_STATE_COMMITTED
         /\ fds[fd].data_offset < fds[fd].data_size
         /\ Goto(t, "read_map",
                 [NoArg EXCEPT !.fd = fd,
                               !.size = fds[fd].data_size - fds[fd].data_offset])
    /\ UNCHANGED <<fds, mmap, mutex>> /\ UNCHANGED Flash

\* mmrofs_map_window returns to mmrofs_data_read
ReadMapped(t) ==
    /\ At(t, "read_map")
    /\ \E f \in {fds[task.arg[t].fd]} :
         mmap' = mmrofs_map_window(mmap, f.flash_offset + f.name_len + f.data_offset)
    /\ Goto(t, "read_copy", task.arg[t])
    /\ UNCHANGED <<fds, mutex>> /\ UNCHANGED Flash

\* f->data_offset += size; return
ReadReturn(t) ==
    /\ At(t, "read_copy")
    /\ fds' = [fds EXCEPT ![task.arg[t].fd].data_offset = @ + task.arg[t].size]
    /\ Goto(t, "idle", NoArg)
    /\ UNCHANGED <<mmap, mutex>> /\ UNCHANGED Flash

\* vfs_close of a read-only handle: the handle is freed, the mutex not taken
CloseReadOnly(t) ==
    /\ At(t, "idle")
    /\ \E fd \in Fds :
         /\ fds[fd].in_use /\ fds[fd].acc = O_RDONLY
         /\ \E r \in {vfs_close(M0(Complete), fds, fd, now)} : fds' = r.fds
    /\ Goto(t, "idle", NoArg)
    /\ UNCHANGED <<mmap, mutex>> /\ UNCHANGED Flash

NextTasks ==
    \E t \in Tasks :
        \/ OpenLock(t)
        \/ OpenLookup(t)
        \/ OpenMapped(t)
        \/ OpenReturn(t)
        \/ ReadEnter(t)
        \/ ReadMapped(t)
        \/ ReadReturn(t)
        \/ CloseReadOnly(t)

SpecTasks == InitTasks /\ [][NextTasks]_vars

\* =========================================================== properties
Footprint(e) == e.offset .. (e.offset + entry_allocated_bytes(e) - 1)

SameFile(h, d, i, j) ==
    /\ h[i].name_hash = h[j].name_hash
    /\ h[i].name_len = h[j].name_len
    /\ StoredName(h, d, i) = StoredName(h, d, j)

\* a step in which power is lost (inside a call or between two calls)
CrashStep == power = "on" /\ power' = "off"

\* a step in which call op returns to the caller
ReturnStep(op) == power = "on" /\ power' = "on" /\ ev'.op = op /\ calls' = calls + 1

\* C2 -- unique live entry per name (I4): in every reachable flash state no
\* two distinct slots in state ACTIVE or VALID carry the same
\* (name_hash, name_len, stored filename).
C2_UniqueLiveEntry ==
    \A i \in LiveSlots(hdr), j \in LiveSlots(hdr) :
        i # j => ~SameFile(hdr, data, i, j)

\* C3 -- footprint disjointness (I2/P3): in every reachable flash state any
\* two distinct live slots have disjoint allocation footprints
\* [offset, offset + align_up(size)).
C3_FootprintsDisjoint ==
    \A i \in LiveSlots(hdr), j \in LiveSlots(hdr) :
        i # j => Footprint(hdr[i]) \cap Footprint(hdr[j]) = {}

\* the close of write handle fd that has already been committed
ClosesCommitted(fd) ==
    /\ ReturnStep("close")
    /\ ev'.fd = fd
    /\ fds[fd].acc # O_RDONLY
    /\ fds[fd].fd_state = FD_STATE_COMMITTED

\* C1 -- crash atomicity (P1): when power is lost inside a write, close,
\* rename or unlink after any number of its flash operations, mount recovery
\* run to completion yields a set of live filenames equal to the set before
\* the call or to the set after the completed call.
C1_CrashAtomicity ==
    [][(CrashStep /\ ev'.op \in {"write", "close", "rename", "unlink"}) =>
        LET rec == Recovered(hdr', data', now')
        IN  LiveNames(rec.hdr, rec.data) \in {LiveNames(hdr, data), ev'.post}]_vars

\* C4 -- create/read round trip: after open(name, WO|CREATE) of a new name,
\* one or more writes whose concatenation is data (at least one byte), and
\* close, with no other call in between, open(name, RO) and reads to EOF
\* return exactly data and stat reports its length; the same after a remount.
C4_CreateReadRoundTrip ==
    [][\A fd \in Fds :
        (ReturnStep("close") /\ ev'.fd = fd /\ hg[fd].fresh /\ hg[fd].alone
            /\ hg[fd].acked >= 1) =>
        LET D   == hg[fd].expect
            o   == Observe(hdr', data', ev'.name)
            rec == Recovered(hdr', data', now')
            o2  == Observe(rec.hdr, rec.data, ev'.name)
        IN  /\ o.found /\ o.bytes = D /\ o.size = Len(D)
            /\ o2.found /\ o2.bytes = D /\ o2.size = Len(D)]_vars

\* C5 -- size finalization only clears bits: when close programs the exact
\* size name_len + data_size of a committed write handle, the exact size is
\* <= the stored size word and has no 1 bit where the stored word has a 0
\* bit, so the size read back after close is name_len + data_size.
C5_SizeFinalizationClearsBits ==
    [][\A fd \in Fds :
        ClosesCommitted(fd) =>
        LET exact  == U32(fds[fd].name_len + fds[fd].data_size)
            stored == hdr[fds[fd].entry_index].size
        IN  /\ exact <= stored
            /\ BitAnd(exact, stored) = exact
            /\ hdr'[fds[fd].entry_index].size = exact]_vars

\* C6 -- live entries are valid (P2): after mount recovery completed and
\* after every completed call thereafter, every slot in state ACTIVE or
\* VALID satisfies the validator.
C6_LiveEntriesValid ==
    (power = "on" /\ ev.op # "init") =>
        \A i \in LiveSlots(hdr) : entry_validate(hdr[i])

\* C9 -- durability of acknowledged writes: if writes through a handle were
\* acknowledged (no other call made meanwhile) and the last acknowledged byte
\* is not 0xFF, then after power is lost at any later point and recovery
\* ran, the name is live and the recovered data begins with the content the
\* caller was acknowledged.
C9_AckedWritesDurable ==
    [][\A fd \in Fds :
        (CrashStep /\ hg[fd].writer /\ hg[fd].alone /\ hg[fd].acked >= 1
            /\ hg[fd].expect[Len(hg[fd].expect)] # 255) =>
        LET D   == hg[fd].expect
            rec == Recovered(hdr', data', now')
            o   == Observe(rec.hdr, rec.data, fds[fd].filename)
        IN  /\ SlotsNamed(rec.hdr, rec.data, fds[fd].filename) # {}
            /\ o.found
            /\ Len(o.bytes) >= Len(D)
            /\ SubSeq(o.bytes, 1, Len(D)) = D]_vars

\* the slot lookup(name) returns over the flash (h, d), -1 if none
LookupSlot(h, d, name) ==
    mmrofs_lookup(Machine(h, d, 0, NoStop, NoFail), name, fnv1a32(name)).idx

\* C7 -- rename preserves content: when rename(a, b) of a live file a with
\* data D returns ok, reading b returns exactly D, a is NotFound, exactly
\* one live entry is named b, its size is len(b) + len(D) and its ctime is
\* a's ctime.
C7_RenamePreservesContent ==
    [][(ReturnStep("rename") /\ ev'.ret = 0) =>
        LET a   == ev'.name
            b   == ev'.arg
            src == LookupSlot(hdr, data, a)
            D   == Observe(hdr, data, a).bytes
            ob  == Observe(hdr', data', b)
            nb  == SlotsNamed(hdr', data', b)
        IN  /\ ob.found /\ ob.bytes = D
            /\ ~Observe(hdr', data', a).found
            /\ Cardinality(nb) = 1
            /\ \A s \in nb : /\ hdr'[s].size = Len(b) + Len(D)
                              /\ hdr'[s].ctime = hdr[src].ctime]_vars

\* the flash operations rename(a, b) issued before power was lost after k
RenameLog(a, b, k) ==
    vfs_rename(Machine(hdr, data, next_free_entry, k, NoFail), fds, a, b, now).m.log

Reached(log, state) ==
    \E n \in 1 .. Len(log) : log[n].kind = "state" /\ log[n].val = state

SlotMarked(log, state) ==
    log[CHOOSE n \in 1 .. Len(log) : log[n].kind = "state" /\ log[n].val = state].at

\* the entry lookup(name) returns is a closed (VALID) file, or there is none
ClosedOrAbsent(h, d, name) ==
    LookupSlot(h, d, name) >= 0 => h[LookupSlot(h, d, name)].state = STATE_VALID

\* C8 -- rename crash atomicity (src a closed file, dst closed or absent):
\* the state bytes of the src slot and of an
\* existing dst slot are not written until the new entry is TOMBSTONING_OLD.
\* Power lost before that write: recovery leaves src and dst live and
\* unchanged and the new slot TOMBSTONE.  Power lost at or after it: recovery
\* leaves src and dst not live and the new name live as a VALID entry with
\* src's content.
C8_RenameCrashAtomicity ==
    [][(CrashStep /\ ev'.op = "rename" /\ LookupSlot(hdr, data, ev'.name) >= 0
          /\ ClosedOrAbsent(hdr, data, ev'.name)
          /\ ClosedOrAbsent(hdr, data, ev'.arg)) =>
        LET a    == ev'.name
            b    == ev'.arg
            log  == RenameLog(a, b, ev'.k)
            src  == LookupSlot(hdr, data, a)
            dst  == LookupSlot(hdr, data, b)
            old  == {src} \cup (IF dst >= 0 THEN {dst} ELSE {})
            D    == Observe(hdr, data, a).bytes
            rec  == Recovered(hdr', data', now')
            ob   == Observe(rec.hdr, rec.data, b)
        IN  IF ~Reached(log, STATE_TOMBSTONING_OLD)
            THEN /\ \A s \in old : hdr'[s].state = hdr[s].state
                 /\ \A s \in old : rec.hdr[s] = hdr[s]
                 /\ Observe(rec.hdr, rec.data, a) = Observe(hdr, data, a)
                 /\ dst >= 0 => Observe(rec.hdr, rec.data, b) = Observe(hdr, data, b)
                 /\ Reached(log, STATE_ALLOCATING) =>
                        rec.hdr[SlotMarked(log, STATE_ALLOCATING)].state = STATE_TOMBSTONE
            ELSE /\ \A s \in old : ~entry_is_live(rec.hdr[s].state)
                 /\ SlotsNamed(rec.hdr, rec.data, b) # {}
                 /\ \A s \in SlotsNamed(rec.hdr, rec.data, b) :
                        rec.hdr[s].state = STATE_VALID
                 /\ ob.found /\ ob.bytes = D]_vars

\* the flash operations of the call of step e when the device rejects its
\* program number e.fail
FailLog(e) ==
    LET m == Machine(hdr, data, next_free_entry, NoStop, e.fail)
    IN  IF e.op = "write" THEN vfs_write(m, fds, e.fd, e.arg, now).m.log
        ELSE IF e.op = "rename" THEN vfs_rename(m, fds, e.name, e.arg, now).m.log
        ELSE <<>>

\* the rejected program comes after the program that marked a slot ALLOCATING
RejectedAfterAllocating(log) ==
    \E n \in 1 .. Len(log), j \in 1 .. Len(log) :
        /\ n < j
        /\ log[n].kind = "state" /\ log[n].val = STATE_ALLOCATING /\ log[n].ok
        /\ ~log[j].ok

\* C10 -- rollback on program failure: in every write flow and in rename, if
\* a flash program issued after the new slot was marked ALLOCATING reports an
\* error, the new slot ends TOMBSTONE, the call returns an error, the
\* handle's state and entry index are unchanged, and the entry that was live
\* for the name is still live with unchanged content.
C10_RollbackOnProgramFailure ==
    [][(power = "on" /\ power' = "on" /\ calls' = calls + 1
          /\ ev'.op \in {"write", "rename"} /\ ev'.fail # NoFail
          /\ RejectedAfterAllocating(FailLog(ev'))) =>
        LET log == FailLog(ev')
            new == SlotMarked(log, STATE_ALLOCATING)
        IN  /\ hdr'[new].state = STATE_TOMBSTONE
            /\ ev'.ret < 0
            /\ ev'.op = "write" =>
                  /\ fds'[ev'.fd].fd_state = fds[ev'.fd].fd_state
                  /\ fds'[ev'.fd].entry_index = fds[ev'.fd].entry_index
            /\ Observe(hdr, data, ev'.name).found =>
                  Observe(hdr', data', ev'.name) = Observe(hdr, data, ev'.name)]_vars

\* C11 -- recovery is a fixed point: for every reachable flash image, after
\* mmrofs_recover ran to completion a second run issues no flash program or
\* erase, so the bytes after the second run equal the bytes after the first.
C11_RecoveryFixedPoint ==
    LET r1 == Recovered(hdr, data, now) IN
    \A t \in now .. MaxTime :
        LET r2 == Recovered(r1.hdr, r1.data, t)
        IN  r2.log = <<>> /\ r2.hdr = r1.hdr /\ r2.data = r1.data

\* C12 -- recovery reaches terminal states: for every reachable flash image,
\* after mmrofs_recover ran to completion no slot is ALLOCATING, PENDING_DATA
\* or TOMBSTONING_OLD, and no slot remains ACTIVE (an ACTIVE slot that
\* validates was promoted to VALID in place or tombstoned in favour of a new
\* VALID slot).
C12_RecoveryTerminalStates ==
    \A r \in {Recovered(hdr, data, now)} :
        \A i \in Slots :
            r.hdr[i].state \notin {STATE_ALLOCATING, STATE_PENDING_DATA,
                                   STATE_TOMBSTONING_OLD, STATE_ACTIVE}

\* the lifecycle order of the state byte
StateOrder ==
    <<STATE_FREE, STATE_ALLOCATING, STATE_PENDING_DATA, STATE_TOMBSTONING_OLD,
      STATE_ACTIVE, STATE_VALID, STATE_TOMBSTONE, STATE_BADBLOCK, STATE_ERASED>>

Rank(state) == CHOOSE n \in 1 .. Len(StateOrder) : StateOrder[n] = state

\* the flash operations that the call of step e issued, run from the state
\* the call started in
CallLog(e) ==
    LET m == Machine(hdr, data, next_free_entry, e.k, e.fail)
    IN  IF e.op = "write" THEN vfs_write(m, fds, e.fd, e.arg, now).m.log
        ELSE IF e.op = "close" THEN vfs_close(m, fds, e.fd, now).m.log
        ELSE IF e.op = "unlink" THEN vfs_unlink(m, fds, e.name).m.log
        ELSE IF e.op = "rename" THEN vfs_rename(m, fds, e.name, e.arg, now).m.log
        ELSE IF e.op = "mount" THEN mmrofs_recover(m, mmrofs_init_clock(m, now)).log
        ELSE <<>>

\* C13 -- monotone lifecycle: every program of a state byte targets a slot
\* whose current state is strictly earlier in the order FREE, ALLOCATING,
\* PENDING_DATA, TOMBSTONING_OLD, ACTIVE, VALID, TOMBSTONE, BADBLOCK, ERASED
\* (so ACTIVE or VALID is never written to a TOMBSTONE slot), and no slot ever
\* returns to an earlier state.
C13_MonotoneLifecycle ==
    [][/\ \A log \in {CallLog(ev')} :
            \A n \in 1 .. Len(log) :
                log[n].kind = "state" /\ log[n].old \in {StateOrder[j] : j \in 1 .. Len(StateOrder)}
                    => Rank(log[n].old) < Rank(log[n].val)
       /\ \A i \in Slots : Rank(hdr[i].state) <= Rank(hdr'[i].state)]_vars

\* flash operation rec programs or erases a byte of the address set
Touches(rec, addrs) ==
    /\ rec.kind \in {"data", "erase"}
    /\ \E a \in addrs : a >= rec.at /\ a < rec.at + rec.val

\* C14 -- no tombstoning under an open handle: while a handle (a read handle
\* or a committed write handle) references a live entry, no unlink, rename or
\* write of another caller programs TOMBSTONE to that entry, and no erase or
\* program touches the entry's data footprint.
C14_NoTombstoneUnderOpenHandle ==
    [][\A fd \in Fds :
          (/\ power = "on" /\ calls' = calls + 1
           /\ ev'.op \in {"unlink", "rename", "write"} /\ ev'.fd # fd
           /\ fds[fd].in_use /\ fds[fd].fd_state = FD_STATE_COMMITTED
           /\ entry_is_live(hdr[fds[fd].entry_index].state))
          => \A log \in {CallLog(ev')} :
                \A n \in 1 .. Len(log) :
                    /\ ~(/\ log[n].kind = "state" /\ log[n].at = fds[fd].entry_index
                         /\ log[n].val = STATE_TOMBSTONE)
                    /\ ~Touches(log[n], Footprint(hdr[fds[fd].entry_index]))]_vars

\* C15 -- shared state is mutex-protected: the FD table, the mmap window
\* state and next_free_entry are modified only by a task that holds the
\* mutex, and no two tasks are inside mmrofs_map_window at the same time.
C15_SharedStateMutexProtected ==
    [][/\ (fds' # fds \/ mmap' # mmap \/ next_free_entry' # next_free_entry)
            => (task'.actor # NoTask => mutex = task'.actor)
       /\ Cardinality(InWindow(task')) <= 1]_vars

\* C16 -- append result: when an existing VALID file with content D is opened
\* for writing, one write of E is acknowledged and the handle is closed, with
\* no other call in between, reading the name returns D followed by E, the
\* original slot is TOMBSTONE, and exactly one VALID slot carries the name,
\* of size name_len + len(D) + len(E) (append in place and full rewrite).
C16_AppendResult ==
    [][\A fd \in Fds :
        (/\ ReturnStep("close") /\ ev'.fd = fd
         /\ hg[fd].writer /\ hg[fd].alone /\ hg[fd].opened = STATE_VALID
         /\ ev.op = "write" /\ ev.fd = fd /\ ev.ret = Len(ev.arg)
         /\ hg[fd].acked = Len(ev.arg)) =>
        \A o \in {Observe(hdr', data', ev'.name)} :
            /\ o.found /\ o.bytes = hg[fd].expect
            /\ hdr'[fds[fd].old_entry_index].state = STATE_TOMBSTONE
            /\ \E s \in Slots :
                  /\ SlotsNamed(hdr', data', ev'.name) = {s}
                  /\ hdr'[s].state = STATE_VALID
                  /\ hdr'[s].size = Len(ev'.name) + Len(hg[fd].expect)]_vars

\* C17 -- streaming write result: for writes w1 .. wn on one handle that
\* created the name, with no other call in between: after every acknowledged
\* write the entry's size field holds a capacity mask (its low BlockShift
\* bits all 1, the scaled low 12 bits); after close reading the name returns
\* w1 followed by ... wn, the handle's slot is VALID with the exact size, and
\* every slot the handle used earlier is TOMBSTONE.
C17_StreamingWriteResult ==
    [][\A fd \in Fds :
        /\ (/\ ReturnStep("write") /\ ev'.fd = fd /\ ev'.ret >= 1
            /\ hg[fd].fresh /\ hg[fd].alone) =>
              is_capacity_mask(hdr'[fds'[fd].entry_index].size)
        /\ (/\ ReturnStep("close") /\ ev'.fd = fd
            /\ hg[fd].fresh /\ hg[fd].alone /\ hg[fd].acked >= 1) =>
              \A o \in {Observe(hdr', data', ev'.name)} :
                  /\ o.found /\ o.bytes = hg[fd].expect
                  /\ hdr'[fds[fd].entry_index].state = STATE_VALID
                  /\ hdr'[fds[fd].entry_index].size
                        = Len(ev'.name) + Len(hg[fd].expect)
                  /\ \A i \in hg[fd].slots \ {fds[fd].entry_index} :
                        hdr'[i].state = STATE_TOMBSTONE]_vars

\* C18 -- close finalization order: close of a committed write handle
\* programs mtime, then the exact size, then VALID, all on slot entry_index;
\* after it the slot is VALID, its mtime is set, its size is name_len plus
\* the handle's data size, and the handle is free.  Close of a write handle
\* that was never written issues no flash write and frees the handle.
C18_CloseFinalizationOrder ==
    [][\A fd \in Fds :
        (ReturnStep("close") /\ ev'.fd = fd /\ fds[fd].acc # O_RDONLY) =>
        \A log \in {CallLog(ev')}, idx \in {fds[fd].entry_index} :
            /\ ~fds'[fd].in_use
            /\ IF fds[fd].fd_state = FD_STATE_COMMITTED
               THEN /\ Len(log) = 3
                    /\ <<log[1].kind, log[2].kind, log[3].kind>> = <<"mtime", "size", "state">>
                    /\ \A n \in 1 .. 3 : log[n].at = idx
                    /\ log[2].val = fds[fd].name_len + fds[fd].data_size
                    /\ log[3].val = STATE_VALID
                    /\ hdr'[idx].state = STATE_VALID
                    /\ hdr'[idx].mtime # MTIME_UNSET
                    /\ hdr'[idx].size = fds[fd].name_len + fds[fd].data_size
               ELSE log = <<>>]_vars

\* C19 -- zero-length files: after open(name, WO|CREATE) of a new name, no
\* write or only zero-length writes, and close, with no other call in
\* between, the name is a live entry: open(name, RO) succeeds, reads return
\* 0 bytes and stat reports size 0; the same after a remount.
C19_ZeroLengthFiles ==
    [][\A fd \in Fds :
        (/\ ReturnStep("close") /\ ev'.fd = fd
         /\ hg[fd].fresh /\ hg[fd].alone /\ hg[fd].acked = 0) =>
        \A o \in {Observe(hdr', data', ev'.name)}, rec \in {Recovered(hdr', data', now')} :
            /\ o.found /\ o.bytes = <<>> /\ o.size = 0
            /\ \A o2 \in {Observe(rec.hdr, rec.data, ev'.name)} :
                  o2.found /\ o2.bytes = <<>> /\ o2.size = 0]_vars

\* C20 -- known size from VALID state: when a name whose entry is VALID is
\* opened for writing, the handle records the exact old data size
\* entry.size - name_len, for every exact size (also one whose low
\* BlockShift bits, the scaled low 12 bits, are all 1), and the first write
\* on the handle is not rejected with EIO for an unknown old size.
C20_KnownSizeFromValid ==
    [][\A fd \in Fds :
        (/\ ReturnStep("open") /\ ev'.fd = fd
         /\ fds'[fd].fd_state = FD_STATE_PENDING_UPDATE
         /\ hdr[fds'[fd].old_entry_index].state = STATE_VALID) =>
        /\ fds'[fd].old_data_size
              = hdr[fds'[fd].old_entry_index].size - hdr[fds'[fd].old_entry_index].name_len
        /\ \A w \in {vfs_write(Machine(hdr', data', next_free_entry', NoStop, NoFail),
                               fds', fd, <<65>>, now')} :
              ~(w.ret < 0 /\ w.errno = "EIO")]_vars

\* slots that log marked PENDING_DATA and took no further
PendingOnly(log) ==
    {s \in Slots :
        /\ \E n \in 1 .. Len(log) :
              log[n].kind = "state" /\ log[n].at = s /\ log[n].val = STATE_PENDING_DATA
        /\ \A n \in 1 .. Len(log) :
              (log[n].kind = "state" /\ log[n].at = s)
                  => log[n].val \in {STATE_ALLOCATING, STATE_PENDING_DATA}}

\* C21 -- crash before ACTIVE: if power is lost in a write after the new
\* slot's PENDING_DATA byte was programmed and before its ACTIVE or
\* TOMBSTONING_OLD byte, then after remount the new slot is TOMBSTONE, no
\* file is visible through it, and the predecessor entry (if any) is VALID
\* and reads back exactly the content and size it had before the write.
C21_CrashBeforeActive ==
    [][\A fd \in Fds :
        (/\ CrashStep /\ ev'.op = "write" /\ ev'.fd = fd /\ hg[fd].alone
         /\ PendingOnly(CallLog(ev')) # {}) =>
        \A rec \in {Recovered(hdr', data', now')} :
            /\ \A s \in PendingOnly(CallLog(ev')) :
                  /\ rec.hdr[s].state = STATE_TOMBSTONE
                  /\ s \notin SlotsNamed(rec.hdr, rec.data, ev'.name)
            /\ \A o \in {Observe(rec.hdr, rec.data, ev'.name)} :
                  IF hg[fd].fresh /\ hg[fd].acked = 0
                  THEN ~o.found
                  ELSE /\ o.found /\ o.bytes = hg[fd].expect
                       /\ o.size = Len(hg[fd].expect)
                       /\ \A s \in SlotsNamed(rec.hdr, rec.data, ev'.name) :
                             rec.hdr[s].state = STATE_VALID]_vars

RejectedUnchanged(fd, bytes) ==
    \A r \in {vfs_write(M0(Complete), fds, fd, bytes, now)} :
        /\ r.ret = -1 /\ r.errno = "EIO"
        /\ r.m.log = <<>> /\ r.m.hdr = hdr /\ r.m.data = data
        /\ r.m.nfe = next_free_entry /\ r.fds = fds

\* a write handle in the pending-update state whose old data size is unknown
UnknownOldSize(fd) ==
    /\ power = "on" /\ fds[fd].in_use
    /\ fds[fd].fd_state = FD_STATE_PENDING_UPDATE
    /\ fds[fd].old_data_size = SIZE_UNKNOWN

\* C23 -- unknown old size rejects the write, as stated: on a handle opened
\* on an existing entry whose exact data size is unknown, every write (a
\* zero-length write included) fails with an IO error, issues no flash
\* program or erase, allocates no slot and leaves the handle in the
\* pending-update state and the existing entry unchanged.
C23_UnknownSizeRejectsEveryWrite ==
    \A fd \in Fds :
        UnknownOldSize(fd) => \A bytes \in ShareInputs : RejectedUnchanged(fd, bytes)

\* C23 amended -- the same for every write of at least one byte (a
\* zero-length write returns 0 before the handle's state is looked at).
C23_UnknownSizeRejectsWrite ==
    \A fd \in Fds :
        UnknownOldSize(fd) =>
            \A bytes \in ShareInputs \ {<<>>} : RejectedUnchanged(fd, bytes)

\* a second handle was opened for writing on a name whose entry another
\* handle had just written and not closed: its old data size is unknown
C23_Witness ==
    \E fd \in Fds :
        /\ UnknownOldSize(fd) /\ ev.op = "open" /\ ev.fd = fd
        /\ hdr[fds[fd].old_entry_index].state = STATE_ACTIVE

\* C24 -- delete: unlink(name) of a name that has a live entry issues exactly
\* one flash program, the byte TOMBSTONE on that entry's slot, and changes no
\* other slot and no data byte; afterwards, with or without a remount, open
\* (read-only) and stat of the name report NotFound.  In every state reached,
\* unlink of a name with no live entry returns NotFound and writes nothing.
C24_Delete ==
    [][/\ (ReturnStep("unlink") /\ SlotsNamed(hdr, data, ev'.name) # {}) =>
            \A log \in {CallLog(ev')}, rec \in {Recovered(hdr', data', now')} :
                /\ Len(log) = 1
                /\ log[1].kind = "state" /\ log[1].val = STATE_TOMBSTONE
                /\ log[1].at \in SlotsNamed(hdr, data, ev'.name)
                /\ data' = data
                /\ \A i \in Slots \ {log[1].at} : hdr'[i] = hdr[i]
                /\ ~Observe(hdr', data', ev'.name).found
                /\ vfs_stat(Machine(hdr', data', 0, NoStop, NoFail), ev'.name).ret = -1
                /\ ~Observe(rec.hdr, rec.data, ev'.name).found
       /\ \A name \in Names :
            (power' = "on" /\ SlotsNamed(hdr', data', name) = {}) =>
                \A r \in {vfs_unlink(Machine(hdr', data', next_free_entry', NoStop, NoFail),
                                     fds', name)} :
                    r.ret = -1 /\ r.errno = "ENOENT" /\ r.m.log = <<>>]_vars

\* ------------------------------------------------------ entry validator
\* The validator is a pure function of one entry read from the table.  The
\* entries it is applied to are drawn from field values on both sides of
\* every comparison of entry_validate, with sizes and offsets up to the
\* largest value of the word, where the round-up and the sum wrap.
ValidateInputs ==
    [state : {STATE_VALID}, reserved_v : {255},
     name_len : {0, 1, 2, NAME_LEN_MAX},
     name_hash : {WORD_MAX},
     offset : {0, MMROFS_DATA_REGION_START - MMROFS_ERASE_BLOCK_SIZE,
               MMROFS_DATA_REGION_START, MMROFS_DATA_REGION_START + 1,
               partition_size - MMROFS_ERASE_BLOCK_SIZE, partition_size,
               WORD_MAX - CAPACITY_MASK_BITS, WORD_MAX},
     size : {0, 1, 2, MMROFS_ERASE_BLOCK_SIZE, MMROFS_ERASE_BLOCK_SIZE + 1,
             NumDataBlocks * MMROFS_ERASE_BLOCK_SIZE,
             NumDataBlocks * MMROFS_ERASE_BLOCK_SIZE + 1,
             WORD_MAX - MMROFS_DATA_REGION_START + 1,
             WORD_MAX - CAPACITY_MASK_BITS, WORD_MAX - 1, WORD_MAX},
     mtime : {WORD_MAX}, ctime : {1},
     old_entry : {0, max_entries - 1, max_entries, ENTRY_NONE},
     dst_entry : {0, max_entries, ENTRY_NONE}]

InitValidate ==
    /\ \E e \in ValidateInputs : hdr = [i \in Slots |-> IF i = 0 THEN e ELSE FreeEntry]
    /\ data = [a \in DataAddrs |-> 255]
    /\ fds = [i \in Fds |-> ZeroFd]
    /\ next_free_entry = 0
    /\ now = 1
    /\ power = "on"
    /\ ev = Step("init", <<>>, <<>>, -1, NoStop, NoFail, 0, {})
    /\ hg = [i \in Fds |-> NoHg]
    /\ calls = 0
    /\ mutex = NoTask
    /\ mmap = [valid |-> FALSE, offset |-> 0]
    /\ task = [pc |-> [t \in Tasks |-> "idle"], arg |-> [t \in Tasks |-> NoArg],
               actor |-> NoTask]

ValidateAct ==
    /\ ev.op = "init"
    /\ ev' = Step("validate", <<>>, <<>>, -1, NoStop, NoFail,
                  IF entry_validate(hdr[0]) THEN 1 ELSE 0, {})
    /\ UNCHANGED <<hdr, data, fds, next_free_entry, now, power, hg, calls, mutex, mmap, task>>

SpecValidate == InitValidate /\ [][ValidateAct]_vars

\* C25 -- validator equivalence: entry_validate returns true exactly when
\* name_len is in [1, MAX_FILENAME_LEN], size >= name_len, offset is at least
\* the start of the data region and a multiple of the erase block, offset plus
\* the size rounded up to whole erase blocks, computed without wrap-around, is
\* at most partition_size, and old_entry and dst_entry are each ENTRY_NONE or
\* below max_entries.
C25_ValidatorEquivalence ==
    ev.op = "validate" =>
        \A e \in {hdr[0]} :
            (ev.ret = 1) <=>
                /\ e.name_len \in 1 .. MMROFS_MAX_FILENAME_LEN
                /\ e.size >= e.name_len
                /\ e.offset >= MMROFS_DATA_REGION_START
                /\ e.offset % MMROFS_ERASE_BLOCK_SIZE = 0
                /\ e.offset + ((e.size + MMROFS_ERASE_BLOCK_SIZE - 1) \div MMROFS_ERASE_BLOCK_SIZE)
                              * MMROFS_ERASE_BLOCK_SIZE <= partition_size
                /\ e.old_entry = ENTRY_NONE \/ e.old_entry < max_entries
                /\ e.dst_entry = ENTRY_NONE \/ e.dst_entry < max_entries

\* C26 -- corrupt entry at the handle API: whenever a live slot matches a
\* name by hash and name_len and fails validation, open (read-only or
\* create) and stat of that name tombstone the slot as their first flash
\* operation and report an IO error: not NotFound, and no handle for a new
\* file.
C26_CorruptEntryReportsIOError ==
    \A name \in Names, i \in Slots :
        (/\ power = "on"
         /\ mmrofs_alloc_fd(fds) >= 0
         /\ entry_is_live(hdr[i].state)
         /\ hdr[i].name_hash = fnv1a32(name) /\ hdr[i].name_len = Len(name)
         /\ ~entry_validate(hdr[i])
         /\ \A j \in Slots \ {i} : ~entry_is_live(hdr[j].state)) =>
            \A st \in {vfs_stat(M0(Complete), name)},
               ro \in {vfs_open(M0(Complete), fds, name, O_RDONLY, FALSE)},
               cr \in {vfs_open(M0(Complete), fds, name, O_WRONLY, TRUE)} :
                /\ st.m.hdr[i].state = STATE_TOMBSTONE
                /\ ro.m.hdr[i].state = STATE_TOMBSTONE
                /\ cr.m.hdr[i].state = STATE_TOMBSTONE
                /\ st.ret = -1 /\ st.errno = "EIO"
                /\ ro.ret = -1 /\ ro.errno = "EIO"
                /\ cr.ret = -1 /\ cr.errno = "EIO"

\* ------------------------------------------------------ boot-time clock
\* A host without a battery-backed clock: while the power is off the clock
\* falls back to a value before 1990.
ClockLoss ==
    /\ power = "off"
    /\ now >= YEAR_1990
    /\ now' = 0
    /\ UNCHANGED <<hdr, data, fds, next_free_entry, power, ev, hg, calls, mutex, mmap, task>>

NextClock ==
    \/ OpenAct(MaxCallsFail, {NameB}, {ModeCreate}, 1, FALSE, FALSE)
    \/ WriteAct(MaxCallsFail, {<<65>>, <<255, 65>>}, TRUE, FALSE)
    \/ CloseAct(MaxCallsFail, TRUE, FALSE)
    \/ PowerLoss(MaxCallsFail)
    \/ ClockLoss
    \/ Mount(FALSE)
    \/ Tick(MaxCallsFail)

SpecClock == Init /\ [][NextClock]_vars

\* C27 -- clock bootstrap: a mount that finds the host clock before 1990
\* sets it to the largest mtime or ctime of the entries live in the recovered
\* filesystem (an unset mtime is ignored); with the clock at or after 1990,
\* or with no live entry, the mount leaves the clock unchanged.
C27_ClockBootstrap ==
    [][(power = "off" /\ ev'.op = "mount" /\ ev'.ret = 0) =>
        LET live  == {i \in Slots : entry_is_live(hdr'[i].state)}
            times == {hdr'[i].mtime : i \in {j \in live : hdr'[j].mtime # MTIME_UNSET}}
                     \cup {hdr'[i].ctime : i \in live}
        IN  IF now < YEAR_1990 /\ live # {}
            THEN now' \in times /\ \A y \in times : now' >= y
            ELSE now' = now]_vars

\* C28 -- immutability of live content: for every slot that is live (ACTIVE
\* or VALID) before and after a step, the name bytes at its offset and every
\* acknowledged data byte (all data bytes of a VALID entry; the bytes an open
\* write handle has been told were written to an ACTIVE entry) are unchanged
\* by the step, and no program or erase of the step touches them: an append
\* programs only positions at or above offset + name_len + old data size.
C28_LiveContentImmutable ==
    [][\A i \in Slots :
        (entry_is_live(hdr[i].state) /\ entry_is_live(hdr'[i].state) /\ entry_validate(hdr[i])) =>
            LET sizes == {fds[fd].data_size :
                              fd \in {g \in Fds : /\ fds[g].in_use /\ fds[g].acc # O_RDONLY
                                                  /\ fds[g].fd_state = FD_STATE_COMMITTED
                                                  /\ fds[g].entry_index = i}} \cup {0}
                acked == IF hdr[i].state = STATE_VALID THEN hdr[i].size - hdr[i].name_len
                         ELSE CHOOSE x \in sizes : \A y \in sizes : x >= y
                kept  == {a \in DataAddrs : /\ a >= hdr[i].offset
                                            /\ a < hdr[i].offset + hdr[i].name_len + acked}
            IN  /\ \A a \in kept : data'[a] = data[a]
                /\ \A log \in {CallLog(ev')} :
                      \A n \in 1 .. Len(log) : ~Touches(log[n], kept)]_vars

\* ------------------------------------------------- power loss in recovery
\* one file; close and the recovery at mount may lose power at any flash
\* operation
NextRecover ==
    \/ OpenAct(MaxCallsFail, {NameB}, {ModeCreate}, 1, FALSE, FALSE)
    \/ WriteAct(MaxCallsFail, {<<65>>, <<255, 65>>}, FALSE, FALSE)
    \/ CloseAct(MaxCallsFail, TRUE, FALSE)
    \/ Mount(TRUE)

SpecRecover == Init /\ [][NextRecover]_vars

\* C29 -- crash inside torn-mtime repair: when a mount loses power while
\* recovery is repairing an ACTIVE entry with a set mtime (the replacement
\* slot has been programmed ALLOCATING or further), a recovery that then runs
\* to completion leaves exactly one live entry for that file, VALID, at the
\* original offset, and no second live entry at that offset.
C29_CrashInsideRepair ==
    [][\A i \in Slots :
        (/\ power = "off" /\ ev'.op = "mount" /\ ev'.ret = -2
         /\ hdr[i].state = STATE_ACTIVE /\ entry_validate(hdr[i])
         /\ hdr[i].mtime # MTIME_UNSET
         /\ \A j \in Slots \ {i} : hdr[j].state \in {STATE_FREE, STATE_VALID, STATE_TOMBSTONE}
         /\ \E ns \in Slots \ {i} : hdr[ns] = FreeEntry /\ hdr'[ns].state # STATE_FREE) =>
            \A rec \in {Recovered(hdr', data', now')} :
                \E s \in Slots :
                    /\ SlotsNamed(rec.hdr, rec.data, StoredName(hdr, data, i)) = {s}
                    /\ rec.hdr[s].state = STATE_VALID
                    /\ rec.hdr[s].offset = hdr[i].offset
                    /\ \A j \in Slots \ {s} :
                          entry_is_live(rec.hdr[j].state) => rec.hdr[j].offset # hdr[i].offset]_vars

\* C30 -- data programs hit only erased bytes: every program of a filename
\* or of file data, in every call and after any history of power losses and
\* recoveries, targets bytes that read 0xFF at that moment, so the bytes read
\* back afterwards are the bytes written.
C30_DataProgramsHitErasedBytes ==
    [][\A log \in {CallLog(ev')} :
        \A n \in 1 .. Len(log) :
            log[n].kind = "data" =>
                \A b \in 1 .. Len(log[n].bytes) : log[n].oldbytes[b] = 255]_vars

\* C31 -- size recovery only clears bits: whenever the recovery at mount
\* programs an inferred size over the size word of an entry, the inferred
\* size is at most the prior size word and has no 1 bit where the prior word
\* has a 0 bit, so the size read back is the inferred size and is at least
\* name_len.
C31_SizeRecoveryOnlyClearsBits ==
    [][(power = "off" /\ ev'.op = "mount") =>
        \A log \in {CallLog(ev')} :
            \A n \in 1 .. Len(log) :
                log[n].kind = "size" =>
                    /\ log[n].val <= log[n].old
                    /\ BitAnd(log[n].val, log[n].old) = log[n].val
                    /\ hdr'[log[n].at].size = log[n].val
                    /\ hdr'[log[n].at].size >= hdr'[log[n].at].name_len]_vars

\* C32 -- a file never disappears during an update: in every call, a live
\* predecessor slot that passes validation and has a successor (a slot in
\* use whose old_entry or dst_entry names it) is programmed TOMBSTONE only
\* while a successor reads TOMBSTONING_OLD and none is live, that is after
\* the successor's TOMBSTONING_OLD program and before its ACTIVE program;
\* and in every flash state, also the ones a power loss leaves behind, a
\* live successor and its predecessor are never both live.
C32_FileNeverDisappears ==
    [][/\ \A log \in {CallLog(ev')} :
            LET Before(s, n) == {m \in 1 .. (n - 1) :
                                    log[m].kind = "state" /\ log[m].at = s /\ log[m].ok}
                StateAt(s, n) == IF Before(s, n) = {} THEN hdr[s].state
                                 ELSE log[CHOOSE m \in Before(s, n) :
                                              \A k \in Before(s, n) : m >= k].val
                Succ(n) == {s \in Slots \ {log[n].at} :
                               /\ hdr'[s].old_entry = log[n].at \/ hdr'[s].dst_entry = log[n].at
                               /\ StateAt(s, n) \in {STATE_ALLOCATING, STATE_PENDING_DATA,
                                                     STATE_TOMBSTONING_OLD, STATE_ACTIVE,
                                                     STATE_VALID}}
            IN  \A n \in 1 .. Len(log) :
                    (/\ log[n].kind = "state" /\ log[n].val = STATE_TOMBSTONE /\ log[n].ok
                     /\ entry_is_live(log[n].old)
                     /\ entry_validate(hdr'[log[n].at])
                     /\ Succ(n) # {})
                        => /\ \E s \in Succ(n) : StateAt(s, n) = STATE_TOMBSTONING_OLD
                           /\ \A s \in Succ(n) : ~entry_is_live(StateAt(s, n))
       /\ \A s \in Slots, p \in Slots :
            (/\ entry_is_live(hdr'[s].state)
             /\ hdr'[s].old_entry = p \/ hdr'[s].dst_entry = p)
                => ~entry_is_live(hdr'[p].state)]_vars

\* C33 -- single-phase write order: in every write or rename that creates an
\* entry, the slot is FREE when ALLOCATING is programmed on it; the next
\* program is the rest of the metadata, with mtime left unset; the next is
\* PENDING_DATA; no data-region byte is programmed before PENDING_DATA; and
\* in the first write of a handle (and in a rename) every data program comes
\* before the program of ACTIVE on the new slot.
C33_SinglePhaseWriteOrder ==
    [][(ev'.op \in {"write", "rename"}) =>
        \A log \in {CallLog(ev')} :
            \A n \in 1 .. Len(log) :
                (log[n].kind = "state" /\ log[n].val = STATE_ALLOCATING /\ log[n].ok) =>
                    LET slot == log[n].at
                        Is(k, kind, val) == k > Len(log) \/
                            (log[k].kind = kind /\ log[k].at = slot /\ (kind = "state" => log[k].val = val))
                        first == ev'.op = "rename" \/
                                 fds[ev'.fd].fd_state \in {FD_STATE_PENDING_NEW, FD_STATE_PENDING_UPDATE}
                    IN  /\ hdr[slot] = FreeEntry
                        /\ \A k \in 1 .. (n - 1) : log[k].at # slot \/ log[k].kind \in {"data", "erase"}
                        /\ Is(n + 1, "meta", 0)
                        /\ (n + 1 <= Len(log) /\ log[n + 1].ok) => Is(n + 2, "state", STATE_PENDING_DATA)
                        /\ \A k \in 1 .. Len(log) :
                              /\ (log[k].kind = "data" /\ n + 2 <= Len(log)) => k > n + 2
                              /\ log[k].kind = "data" => n + 2 <= Len(log)
                              /\ (log[k].kind = "mtime" /\ log[k].at = slot) => k > n + 2
                              /\ (first /\ log[k].kind = "state" /\ log[k].at = slot
                                        /\ log[k].val = STATE_ACTIVE) =>
                                    \A d \in 1 .. Len(log) : log[d].kind = "data" => d < k
                        /\ (n + 1 <= Len(log) /\ log[n + 1].ok
                            /\ \A k \in 1 .. Len(log) : ~(log[k].kind = "mtime" /\ log[k].at = slot))
                                => hdr'[slot].mtime = MTIME_UNSET]_vars

C33_Witness ==
    /\ ev.op = "write" /\ ev.ret = Len(ev.arg) /\ ev.ret > 0
    /\ \E slot \in Slots, old \in Slots :
          /\ fds[ev.fd].in_use /\ fds[ev.fd].entry_index = slot
          /\ hdr[slot].state = STATE_ACTIVE /\ hdr[slot].old_entry = old
          /\ hdr[old].state = STATE_TOMBSTONE /\ hdr[old].mtime # MTIME_UNSET
          /\ hdr[old].offset = hdr[slot].offset
          /\ fds[ev.fd].data_size = hdr[old].size - hdr[old].name_len + Len(ev.arg)

WriteEraseFailAct(budget, inputs) ==
    /\ power = "on"
    /\ calls < budget
    /\ \E fd \in Fds, bytes \in inputs :
         /\ fds[fd].in_use
         /\ fds[fd].acc # O_RDONLY
         /\ LET R(run) == vfs_write(M0(run), fds, fd, bytes, now) IN
            \E full \in {R(Complete)} :
              \E run \in {Complete} \cup {<<NoStop, EraseFailAt(j)>> : j \in 0 .. (full.m.n - 1)} :
                \E r \in {R(run)} :
                  Effect("write", fds[fd].filename, bytes, fd, run, r, full,
                         IF r.ret >= 0
                         THEN [Others(hg, fd) EXCEPT ![fd].expect = @ \o bytes,
                                                     ![fd].acked = @ + Len(bytes),
                                                     ![fd].slots =
                                                        @ \cup {r.fds[fd].entry_index}]
                         ELSE Others(hg, fd))

NextErase ==
    \/ OpenAct(MaxCallsShare, Names, {ModeCreate}, 1, FALSE, FALSE)
    \/ WriteEraseFailAct(MaxCallsShare, {<<65>>, <<66, 66>>})
    \/ CloseAct(MaxCallsShare, FALSE, FALSE)
    \/ UnlinkAct(MaxCallsShare, Names, FALSE, FALSE)

SpecErase == Init /\ [][NextErase]_vars

\* C35 -- erase verification before commit: when the device rejects the
\* erase of a freshly allocated range, the range is recorded in a BADBLOCK
\* entry and no file data is programmed into it; and whenever a write
\* programs PENDING_DATA on an entry with no predecessor, every byte of the
\* entry's footprint reads 0xFF at that moment.
C35_EraseVerifiedBeforeCommit ==
    [][(ev'.op = "write") =>
        \A log \in {CallLog(ev')} :
            \A n \in 1 .. Len(log) :
                /\ (log[n].kind = "erase" /\ ~log[n].ok) =>
                      /\ \E i \in Slots : /\ hdr'[i].state = STATE_BADBLOCK
                                          /\ hdr'[i].offset >= log[n].at
                                          /\ hdr'[i].offset < log[n].at + log[n].val
                      /\ \A k \in (n + 1) .. Len(log) :
                            log[k].kind = "data" =>
                                \/ log[k].at + log[k].val <= log[n].at
                                \/ log[k].at >= log[n].at + log[n].val
                /\ (/\ log[n].kind = "state" /\ log[n].val = STATE_PENDING_DATA /\ log[n].ok
                    /\ hdr'[log[n].at].old_entry = ENTRY_NONE) =>
                      \A a \in DataAddrs :
                          (/\ a >= hdr'[log[n].at].offset
                           /\ a < hdr'[log[n].at].offset
                                  + entry_allocated_bytes(hdr'[log[n].at])) =>
                              \/ data[a] = 255
                              \/ \E k \in 1 .. (n - 1) :
                                    /\ log[k].kind = "erase" /\ log[k].ok
                                    /\ a >= log[k].at /\ a < log[k].at + log[k].val]_vars

\* ------------------------------------------------------ slot allocation
\* The entry table as mmrofs_alloc_entry may find it: slots that are erased,
\* slots in use, and slots whose state byte reads 0xFF while another byte
\* does not (an interrupted rewrite of an erased page); the hint is anywhere
\* in the table.  Each step is one call of mmrofs_alloc_entry; the step
\* records the slots returned so far.
InitAlloc ==
    /\ hdr \in [Slots -> {FreeEntry, [FreeEntry EXCEPT !.size = 0],
                          [FreeEntry EXCEPT !.state = STATE_TOMBSTONE, !.size = 0]}]
    /\ data = [a \in DataAddrs |-> 255]
    /\ fds = [i \in Fds |-> ZeroFd]
    /\ next_free_entry \in 0 .. max_entries
    /\ now = 1
    /\ power = "on"
    /\ ev = Step("init", <<>>, <<>>, -1, NoStop, NoFail, 0, {})
    /\ hg = [i \in Fds |-> NoHg]
    /\ calls = 0
    /\ mutex = NoTask
    /\ mmap = [valid |-> FALSE, offset |-> 0]
    /\ task = [pc |-> [t \in Tasks |-> "idle"], arg |-> [t \in Tasks |-> NoArg],
               actor |-> NoTask]

AllocAct ==
    /\ calls < MaxCallsFail
    /\ \E a \in {mmrofs_alloc_entry(M0(Complete))} :
          /\ hdr' = a.m.hdr
          /\ next_free_entry' = a.m.nfe
          /\ ev' = Step("alloc", <<>>,
                        IF a.slot >= 0 THEN Append(ev.arg, a.slot) ELSE ev.arg,
                        -1, NoStop, NoFail, a.slot, {})
    /\ calls' = calls + 1
    /\ UNCHANGED <<data, fds, now, power, hg, mutex, mmap, task>>

SpecAlloc == InitAlloc /\ [][AllocAct]_vars

\* C36 -- slot allocation: mmrofs_alloc_entry returns a slot only if the
\* whole slot reads 0xFF; it scans from next_free_entry upward and returns
\* the first such slot, setting next_free_entry to that index + 1; every slot
\* it passes over whose state byte is 0xFF while another byte is not is
\* programmed ERASED and nothing else changes; it returns no slot only when
\* none at or above the hint is erased; and over a sequence of calls it never
\* returns the same slot twice.
C36_SlotAllocation ==
    [][(ev'.op = "alloc") =>
        LET slot == ev'.ret
            passed == {i \in Slots : i >= next_free_entry /\ (slot < 0 \/ i < slot)}
        IN  /\ slot >= 0 =>
                  /\ slot \in Slots /\ AllFF(hdr[slot])
                  /\ slot >= next_free_entry
                  /\ next_free_entry' = slot + 1
                  /\ \A n \in 1 .. Len(ev.arg) : ev.arg[n] # slot
            /\ slot < 0 => next_free_entry' = next_free_entry
            /\ \A i \in passed : ~AllFF(hdr[i])
            /\ \A i \in Slots :
                  hdr'[i] = IF i \in passed /\ hdr[i].state = STATE_FREE
                            THEN [hdr[i] EXCEPT !.state = STATE_ERASED]
                            ELSE hdr[i]]_vars

C36_Witness ==
    /\ ev.op = "alloc" /\ ev.ret >= 0 /\ Len(ev.arg) >= 2
    /\ \E i \in Slots : i < ev.ret /\ hdr[i].state = STATE_ERASED /\ hdr[i].size = 0

\* ------------------------------------------------------ hint rebuild
\* one file written through one handle; the flash device may reject a
\* program, the power may fail during a close, and the next mount recovers
NextHint ==
    \/ OpenAct(MaxCallsFail, {NameB}, {ModeCreate}, 1, FALSE, FALSE)
    \/ WriteAct(MaxCallsFail, {<<65>>}, FALSE, TRUE)
    \/ CloseAct(MaxCallsFail, TRUE, FALSE)
    \/ Mount(FALSE)

SpecHint == Init /\ [][NextHint]_vars

\* C37 -- hint rebuild on mount: when mmrofs_recover has returned,
\* next_free_entry is the lowest index of a slot whose 32 bytes all read 0xFF
\* in the flash as recovery left it, or max_entries when there is no such
\* slot; also when the pass allocated a slot for a torn-mtime repair.
C37_HintIsLowestFreeSlot ==
    (ev.op = "mount" /\ ev.ret = 0) =>
        LET free == {i \in Slots : AllFF(hdr[i])}
        IN  IF free = {} THEN next_free_entry = max_entries
            ELSE next_free_entry \in free /\ \A i \in free : next_free_entry <= i

\* C38 -- ctime preserved: an entry whose fields are programmed without a
\* predecessor carries the time of its creation as ctime; an entry programmed
\* as the successor of another slot (append, full rewrite, streaming
\* expansion, rename, torn-mtime repair) carries that slot's ctime; and the
\* ctime of a programmed entry never changes afterwards, whatever operations
\* and recoveries follow.
C38_CtimePreserved ==
    [][\A s \in Slots :
          LET Programmed(e) == [e EXCEPT !.state = STATE_FREE] # FreeEntry
          IN  /\ Programmed(hdr[s]) => hdr'[s].ctime = hdr[s].ctime
              /\ (~Programmed(hdr[s]) /\ Programmed(hdr'[s])) =>
                    IF hdr'[s].old_entry = ENTRY_NONE
                    THEN hdr'[s].ctime = now
                    ELSE /\ hdr'[s].old_entry \in Slots
                         /\ Programmed(hdr[hdr'[s].old_entry])
                         /\ hdr'[s].ctime = hdr[hdr'[s].old_entry].ctime]_vars

\* a successor entry live two clock ticks after the file was created
C38_Witness ==
    \E s \in Slots :
        /\ entry_is_live(hdr[s].state)
        /\ hdr[s].old_entry \in Slots
        /\ hdr[s].ctime = hdr[hdr[s].old_entry].ctime
        /\ hdr[s].ctime < now
        /\ hdr[s].name_hash # hdr[hdr[s].old_entry].name_hash

\* C39 -- committed write handle: after every completed operation, each open
\* write handle in the committed state names a slot that is ACTIVE, whose
\* offset is the handle's flash_offset, whose name_hash and name_len are the
\* handle's, and whose allocation footprint holds name_len + data_size; and a
\* write handle becomes committed only from pending-new or pending-update and
\* only in a write that returned success.
C39_CommittedHandle ==
    [][power' = "on" =>
        \A fd \in Fds :
          LET f == fds'[fd]
              g == fds[fd]
          IN  (f.in_use /\ f.acc # O_RDONLY /\ f.fd_state = FD_STATE_COMMITTED) =>
                /\ f.entry_index \in Slots
                /\ hdr'[f.entry_index].state = STATE_ACTIVE
                /\ hdr'[f.entry_index].offset = f.flash_offset
                /\ hdr'[f.entry_index].name_hash = f.name_hash
                /\ hdr'[f.entry_index].name_len = f.name_len
                /\ f.name_len + f.data_size <= entry_allocated_bytes(hdr'[f.entry_index])
                /\ (~(g.in_use /\ g.fd_state = FD_STATE_COMMITTED)) =>
                      /\ g.in_use
                      /\ g.fd_state \in {FD_STATE_PENDING_NEW, FD_STATE_PENDING_UPDATE}
                      /\ ev'.op = "write" /\ ev'.fd = fd /\ ev'.ret > 0]_vars

\* ------------------------------------------------------------- mutex
\* Two tasks call the entry points that take the mutex.  A call is four
\* steps: the task enters and blocks in mmrofs_lock, it takes the mutex, it
\* runs the body of the call, it gives the mutex back and returns.  In this
\* specification task.arg holds the call of each task and task.dirs the
\* directory table.
MMROFS_MAX_DIRS == 2
Dirs    == 0 .. (MMROFS_MAX_DIRS - 1)
ZeroDir == [in_use |-> FALSE, scan_index |-> 0]

Call(op, name, fd, arg) == [op |-> op, name |-> name, fd |-> fd, arg |-> arg]
NoCall == Call("none", <<>>, -1, <<>>)

\* xSemaphoreGiveRecursive by the owner of the mutex
mmrofs_unlock_keeps(mx, t) == mx

mmrofs_unlock(mx, t) == IF mx = t THEN NoTask ELSE mx

\* the first directory slot not in use, its cursor at slot 0
vfs_opendir(dirs) ==
    IF \E d \in Dirs : ~dirs[d].in_use
    THEN LET d == CHOOSE d \in Dirs :
                      ~dirs[d].in_use /\ \A c \in Dirs : ~dirs[c].in_use => d <= c
         IN  [dirs |-> [dirs EXCEPT ![d] = [in_use |-> TRUE, scan_index |-> 0]],
              ret |-> d]
    ELSE [dirs |-> dirs, ret |-> -1]

\* the cursor moves over the table up to the next live entry that
\* validates; ret is its slot, -1 at the end of the table
RECURSIVE vfs_readdir(_, _, _)
vfs_readdir(m, dirs, d) ==
    IF dirs[d].scan_index >= max_entries THEN [dirs |-> dirs, ret |-> -1]
    ELSE LET idx  == dirs[d].scan_index
             e    == entry_read(m, idx)
             next == [dirs EXCEPT ![d].scan_index = idx + 1]
         IN  IF ~entry_is_live(e.state) \/ ~entry_validate(e)
             THEN vfs_readdir(m, next, d)
             ELSE [dirs |-> next, ret |-> idx]

InitMutex ==
    /\ hdr = [i \in Slots |-> FreeEntry]
    /\ data = [a \in DataAddrs |-> 255]
    /\ fds = [i \in Fds |-> ZeroFd]
    /\ next_free_entry = 0
    /\ now = 1
    /\ power = "on"
    /\ ev = Step("init", <<>>, <<>>, -1, NoStop, NoFail, 0, {})
    /\ hg = [i \in Fds |-> NoHg]
    /\ calls = 0
    /\ mutex = NoTask
    /\ mmap = [valid |-> FALSE, offset |-> 0]
    /\ task = [pc |-> [t \in Tasks |-> "idle"], arg |-> [t \in Tasks |-> NoCall],
               actor |-> NoTask, dirs |-> [d \in Dirs |-> ZeroDir]]

\* the calls a task may start: a handle or a directory is used by one call
\* at a time
CallsOf(t) ==
    LET Busy(op, i) == \E u \in Tasks \ {t} :
                          /\ task.arg[u].fd = i
                          /\ (task.arg[u].op \in {"opendir", "readdir"}) <=> (op = "readdir")
                          /\ task.arg[u].op # "none"
        Handles == {fd \in Fds : fds[fd].in_use /\ fds[fd].acc # O_RDONLY
                                 /\ ~Busy("write", fd)}
    IN  {Call("open", NameB, -1, <<>>), Call("unlink", NameB, -1, <<>>),
         Call("stat", NameB, -1, <<>>), Call("rename", NameB, -1, NameA),
         Call("opendir", <<>>, -1, <<>>)}
        \cup {Call("write", <<>>, fd, <<65>>) : fd \in Handles}
        \cup {Call("close", <<>>, fd, <<>>) : fd \in Handles}
        \cup {Call("fstat", <<>>, fd, <<>>) : fd \in Handles}
        \cup {Call("readdir", <<>>, d, <<>>) :
                 d \in {c \in Dirs : task.dirs[c].in_use /\ ~Busy("readdir", c)}}

\* the call up to mmrofs_lock: the arguments are valid, the task blocks
Enter(t) ==
    /\ task.pc[t] = "idle"
    /\ calls < MaxCallsMutex
    /\ \E c \in CallsOf(t) :
          task' = [task EXCEPT !.pc[t] = "wait", !.arg[t] = c, !.actor = t]
    /\ calls' = calls + 1
    /\ UNCHANGED <<hdr, data, fds, next_free_entry, now, power, ev, hg, mutex, mmap>>

\* mmrofs_lock returns: xSemaphoreTakeRecursive(portMAX_DELAY)
Acquire(t) ==
    /\ task.pc[t] = "wait"
    /\ mutex = NoTask
    /\ mutex' = t
    /\ task' = [task EXCEPT !.pc[t] = "locked", !.actor = t]
    /\ UNCHANGED <<hdr, data, fds, next_free_entry, now, power, ev, hg, calls, mmap>>

\* the state the body of a call leaves, up to its mmrofs_unlock
Done(t, m, fds2, dirs2, ret) ==
    /\ hdr' = m.hdr
    /\ data' = m.data
    /\ next_free_entry' = m.nfe
    /\ fds' = fds2
    /\ task' = [task EXCEPT !.pc[t] = "unlock", !.actor = t, !.dirs = dirs2]
    /\ ev' = Step(task.arg[t].op, task.arg[t].name, task.arg[t].arg, task.arg[t].fd,
                  NoStop, NoFail, ret, {})
    /\ UNCHANGED <<now, power, hg, calls, mutex, mmap>>

Body(t) ==
    /\ task.pc[t] = "locked"
    /\ \E c \in {task.arg[t]} :
         \/ /\ c.op = "open"
            /\ \E r \in {vfs_open(M0(Complete), fds, c.name, O_WRONLY, TRUE)} :
                  Done(t, r.m, r.fds, task.dirs, r.ret)
         \/ /\ c.op = "write"
            /\ \E r \in {vfs_write(M0(Complete), fds, c.fd, c.arg, now)} :
                  Done(t, r.m, r.fds, task.dirs, r.ret)
         \/ /\ c.op = "close"
            /\ \E r \in {vfs_close(M0(Complete), fds, c.fd, now)} :
                  Done(t, r.m, r.fds, task.dirs, r.ret)
         \/ /\ c.op = "unlink"
            /\ \E r \in {vfs_unlink(M0(Complete), fds, c.name)} :
                  Done(t, r.m, r.fds, task.dirs, r.ret)
         \/ /\ c.op = "rename"
            /\ \E r \in {vfs_rename(M0(Complete), fds, c.name, c.arg, now)} :
                  Done(t, r.m, r.fds, task.dirs, r.ret)
         \/ /\ c.op = "stat"
            /\ \E r \in {vfs_stat(M0(Complete), c.name)} :
                  Done(t, r.m, fds, task.dirs, r.ret)
         \/ /\ c.op = "fstat"
            /\ Done(t, M0(Complete), fds, task.dirs, 0)
         \/ /\ c.op = "opendir"
            /\ \E r \in {vfs_opendir(task.dirs)} :
                  Done(t, M0(Complete), fds, r.dirs, r.ret)
         \/ /\ c.op = "readdir"
            /\ \E r \in {vfs_readdir(M0(Complete), task.dirs, c.fd)} :
                  Done(t, M0(Complete), fds, r.dirs, r.ret)

\* mmrofs_unlock and return
Leave(t) ==
    /\ task.pc[t] = "unlock"
    /\ mutex' = mmrofs_unlock(mutex, t)
    /\ task' = [task EXCEPT !.pc[t] = "idle", !.arg[t] = NoCall, !.actor = t]
    /\ UNCHANGED <<hdr, data, fds, next_free_entry, now, power, ev, hg, calls, mmap>>

NextMutex ==
    \E t \in Tasks : Enter(t) \/ Acquire(t) \/ Body(t) \/ Leave(t)

\* the step of Body(t) as the task's position shows it: the body of the
\* call of t ends, whatever it did to the flash and the directory table
DirTables == [Dirs -> [in_use : BOOLEAN, scan_index : 0 .. max_entries]]

BodyEnds(t) ==
    /\ task.pc[t] = "locked"
    /\ \E d \in DirTables :
          task' = [task EXCEPT !.pc[t] = "unlock", !.actor = t, !.dirs = d]

\* a task that runs keeps running: the body of its call ends and the call
\* returns; a blocked task is woken whenever the mutex is given back and
\* takes it at one of those times
SpecMutex ==
    /\ InitMutex /\ [][NextMutex]_vars
    /\ \A t \in Tasks :
          WF_task(BodyEnds(t)) /\ WF_vars(Leave(t)) /\ SF_vars(Acquire(t))

====
